---- MODULE Spec2Model ----
(***************************************************************************)
(* coolify-patrol: the update-decision engine (internal/semver), the tag   *)
(* selector of the registry client (internal/registry) and the watcher's   *)
(* check cycle (internal/watcher).                                         *)
(*                                                                         *)
(* Go strings are modelled as sequences of one-character strings, so that  *)
(* parsing, formatting and byte-wise comparison are computed, not assumed. *)
(***************************************************************************)
EXTENDS Integers, Sequences, FiniteSets, TLC

(***************************************************************************)
(* Strings                                                                 *)
(***************************************************************************)

\* The characters used by the model, in ASCII (byte) order.
Chars ==
  << "+", "-", ".", "/", "0", "1", "2", "3", "4", "5", "6", "7", "8", "9",
     ":", "A", "_", "a", "b", "c", "d", "e", "g", "h", "l", "p", "s", "t", "v", "x" >>

CharSet == { Chars[i] : i \in 1..Len(Chars) }

\* Byte order of a character.
Ord == [ c \in CharSet |-> CHOOSE i \in 1..Len(Chars) : Chars[i] = c ]

Digits == { "0", "1", "2", "3", "4", "5", "6", "7", "8", "9" }

Letters == { "A", "a", "b", "c", "d", "e", "g", "h", "l", "p", "s", "t", "v", "x" }

\* The character class [a-zA-Z0-9\-\.] of semverRegex.
IdentChars == Letters \cup Digits \cup { "-", "." }

SetMin(S) == CHOOSE x \in S : \A y \in S : x <= y

\* strings.Compare / the Go operators < and > on strings: byte-wise
\* lexicographic order, a proper prefix is smaller.
StrCompare(a, b) ==
  LET n     == IF Len(a) < Len(b) THEN Len(a) ELSE Len(b)
      diffs == { i \in 1..n : a[i] # b[i] }
  IN  IF diffs = {}
        THEN IF Len(a) < Len(b) THEN -1 ELSE IF Len(a) > Len(b) THEN 1 ELSE 0
        ELSE LET i == SetMin(diffs)
             IN  IF Ord[a[i]] < Ord[b[i]] THEN -1 ELSE 1

\* strings.Contains
Contains(s, sub) ==
  \E i \in 1..(Len(s) - Len(sub) + 1) : SubSeq(s, i, i + Len(sub) - 1) = sub

\* strings.Split(s, sep) for a one-character separator.
RECURSIVE Split(_, _)
Split(s, sep) ==
  LET idx == { i \in 1..Len(s) : s[i] = sep }
  IN  IF idx = {} THEN << s >>
      ELSE LET i == SetMin(idx)
           IN  << SubSeq(s, 1, i - 1) >> \o Split(SubSeq(s, i + 1, Len(s)), sep)

\* strings.TrimPrefix(s, "v")
TrimPrefixV(s) == IF Len(s) > 0 /\ s[1] = "v" THEN Tail(s) ELSE s

AllDigits(s) == \A i \in 1..Len(s) : s[i] \in Digits

\* Value of a run of decimal digits.
RECURSIVE DigitsVal(_)
DigitsVal(s) ==
  IF s = << >> THEN 0
  ELSE 10 * DigitsVal(SubSeq(s, 1, Len(s) - 1)) + (Ord[s[Len(s)]] - Ord["0"])

\* strconv.Atoi: optional sign, then one or more decimal digits.
Atoi(s) ==
  LET signed == Len(s) > 0 /\ s[1] \in { "+", "-" }
      body   == IF signed THEN Tail(s) ELSE s
  IN  IF body = << >> \/ ~AllDigits(body)
        THEN [ err |-> TRUE, val |-> 0 ]
        ELSE [ err |-> FALSE,
               val |-> IF signed /\ s[1] = "-" THEN 0 - DigitsVal(body)
                       ELSE DigitsVal(body) ]

\* fmt "%d" of a non-negative integer.
RECURSIVE Itoa(_)
Itoa(n) ==
  IF n < 10 THEN << Chars[Ord["0"] + n] >>
  ELSE Itoa(n \div 10) \o << Chars[Ord["0"] + (n % 10)] >>

(***************************************************************************)
(* internal/semver                                                         *)
(***************************************************************************)

NoVersion ==
  [ err |-> TRUE, Major |-> 0, Minor |-> 0, Patch |-> 0,
    Prerelease |-> << >>, Build |-> << >>, Original |-> << >> ]

\* An identifier group of semverRegex: ([a-zA-Z0-9\-\.]+)
IsIdent(s) == s # << >> /\ \A i \in 1..Len(s) : s[i] \in IdentChars

\* ParseVersion: semverRegex
\*   ^v?(\d+)\.(\d+)\.(\d+)(?:-([a-zA-Z0-9\-\.]+))?(?:\+([a-zA-Z0-9\-\.]+))?$
\* The numeric core ends at the first '-' or '+'; a prerelease runs to the
\* first '+' (which is outside the identifier class); the build is the rest.
ParseVersion(v) ==
  LET s     == TrimPrefixV(v)
      seps  == { i \in 1..Len(s) : s[i] \in { "-", "+" } }
      cut   == IF seps = {} THEN Len(s) + 1 ELSE SetMin(seps)
      core  == SubSeq(s, 1, cut - 1)
      rest  == SubSeq(s, cut, Len(s))
      parts == Split(core, ".")
      coreOK == /\ Len(parts) = 3
                /\ \A k \in 1..3 : parts[k] # << >> /\ AllDigits(parts[k])
      hasPre == rest # << >> /\ rest[1] = "-"
      tail1  == IF rest = << >> THEN << >> ELSE Tail(rest)
      pluses == { i \in 1..Len(tail1) : tail1[i] = "+" }
      plus   == IF pluses = {} THEN Len(tail1) + 1 ELSE SetMin(pluses)
      pre    == IF hasPre THEN SubSeq(tail1, 1, plus - 1) ELSE << >>
      hasBuild == IF hasPre THEN plus <= Len(tail1) ELSE rest # << >>
      build  == IF ~hasBuild THEN << >>
                ELSE IF hasPre THEN SubSeq(tail1, plus + 1, Len(tail1))
                ELSE tail1
      restOK == /\ hasPre => IsIdent(pre)
                /\ hasBuild => IsIdent(build)
  IN  IF coreOK /\ restOK
        THEN [ err |-> FALSE,
               Major |-> Atoi(parts[1]).val,
               Minor |-> Atoi(parts[2]).val,
               Patch |-> Atoi(parts[3]).val,
               Prerelease |-> pre, Build |-> build, Original |-> v ]
        ELSE NoVersion

\* Compare with a prerelease ranked above the release.
ComparePrereleaseAboveStable(v, other) ==
  IF v.Major # other.Major THEN (IF v.Major < other.Major THEN -1 ELSE 1)
  ELSE IF v.Minor # other.Minor THEN (IF v.Minor < other.Minor THEN -1 ELSE 1)
  ELSE IF v.Patch # other.Patch THEN (IF v.Patch < other.Patch THEN -1 ELSE 1)
  ELSE IF v.Prerelease = << >> /\ other.Prerelease # << >> THEN -1
  ELSE IF v.Prerelease # << >> /\ other.Prerelease = << >> THEN 1
  ELSE IF v.Prerelease # << >> /\ other.Prerelease # << >>
         THEN StrCompare(v.Prerelease, other.Prerelease)
  ELSE 0

\* Compare with two different prereleases never ordered: the receiver wins.
ComparePrereleaseUnordered(v, other) ==
  IF v.Major # other.Major THEN (IF v.Major < other.Major THEN -1 ELSE 1)
  ELSE IF v.Minor # other.Minor THEN (IF v.Minor < other.Minor THEN -1 ELSE 1)
  ELSE IF v.Patch # other.Patch THEN (IF v.Patch < other.Patch THEN -1 ELSE 1)
  ELSE IF v.Prerelease = << >> /\ other.Prerelease # << >> THEN 1
  ELSE IF v.Prerelease # << >> /\ other.Prerelease = << >> THEN -1
  ELSE IF v.Prerelease # << >> /\ other.Prerelease # << >>
         THEN (IF v.Prerelease = other.Prerelease THEN 0 ELSE 1)
  ELSE 0

\* Version.Compare: -1, 0 or 1.
Compare(v, other) ==
  IF v.Major # other.Major THEN (IF v.Major < other.Major THEN -1 ELSE 1)
  ELSE IF v.Minor # other.Minor THEN (IF v.Minor < other.Minor THEN -1 ELSE 1)
  ELSE IF v.Patch # other.Patch THEN (IF v.Patch < other.Patch THEN -1 ELSE 1)
  ELSE IF v.Prerelease = << >> /\ other.Prerelease # << >> THEN 1
  ELSE IF v.Prerelease # << >> /\ other.Prerelease = << >> THEN -1
  ELSE IF v.Prerelease # << >> /\ other.Prerelease # << >>
         THEN StrCompare(v.Prerelease, other.Prerelease)
  ELSE 0

\* types.UpdatePolicy constants.
AutoPatch == "auto-patch"
AutoMinor == "auto-minor"
AutoAll == "auto-all"
NotifyOnly == "notify-only"

Policies == { AutoPatch, AutoMinor, AutoAll, NotifyOnly }

\* The reason strings of IsUpdateAllowed.  A formatted reason is the tuple
\* of its format fragments and arguments; the fixed fragments of different
\* formats differ in their first words, so tuple equality is string equality.
ReasonNonSemverAutoAll == << "non-semver update (auto-all policy)" >>
ReasonNonSemver(policy) ==
  << "non-semver tag, policy ", policy, " requires explicit semver" >>
ReasonLatestNotSemver(latest) == << "latest tag ", latest, " is not semver" >>
ReasonNotNewer == << "latest version is not newer than current" >>
ReasonInvalidPin(pin) == << "invalid pin value: ", pin >>
ReasonPinBoundary(pinMajor) ==
  << "update would cross pin boundary (pinned to major ", pinMajor, ")" >>
ReasonNotifyOnly == << "notify-only policy - update available but not applied" >>
ReasonPatchOnly == << "auto-patch policy only allows patch updates" >>
ReasonPatchAllowed == << "patch update allowed" >>
ReasonMinorOnly == << "auto-minor policy only allows minor and patch updates" >>
ReasonMinorAllowed == << "minor/patch update allowed" >>
ReasonAutoAll == << "auto-all policy allows all updates" >>
ReasonUnknownPolicy(policy) == << "unknown update policy: ", policy >>

Decision(allowed, reason) == [ allowed |-> allowed, reason |-> reason ]

\* ApplyPolicy with an auto-patch case that compares the major only.
ApplyPolicyPatchIgnoresMinor(currentVer, latestVer, policy) ==
  CASE policy = NotifyOnly -> Decision(FALSE, ReasonNotifyOnly)
    [] policy = AutoPatch ->
         IF latestVer.Major # currentVer.Major
           THEN Decision(FALSE, ReasonPatchOnly)
           ELSE Decision(TRUE, ReasonPatchAllowed)
    [] policy = AutoMinor ->
         IF latestVer.Major # currentVer.Major
           THEN Decision(FALSE, ReasonMinorOnly)
           ELSE Decision(TRUE, ReasonMinorAllowed)
    [] policy = AutoAll -> Decision(TRUE, ReasonAutoAll)
    [] OTHER -> Decision(FALSE, ReasonUnknownPolicy(policy))

\* ApplyPolicy with a notify-only case that allows.
ApplyPolicyNotifyAllows(currentVer, latestVer, policy) ==
  CASE policy = NotifyOnly -> Decision(TRUE, ReasonNotifyOnly)
    [] policy = AutoPatch ->
         IF latestVer.Major # currentVer.Major \/ latestVer.Minor # currentVer.Minor
           THEN Decision(FALSE, ReasonPatchOnly)
           ELSE Decision(TRUE, ReasonPatchAllowed)
    [] policy = AutoMinor ->
         IF latestVer.Major # currentVer.Major
           THEN Decision(FALSE, ReasonMinorOnly)
           ELSE Decision(TRUE, ReasonMinorAllowed)
    [] policy = AutoAll -> Decision(TRUE, ReasonAutoAll)
    [] OTHER -> Decision(FALSE, ReasonUnknownPolicy(policy))

\* ApplyPolicy with an auto-minor case that allows minor bumps only, not
\* patch releases within the minor.
ApplyPolicyMinorDeniesPatch(currentVer, latestVer, policy) ==
  CASE policy = NotifyOnly -> Decision(FALSE, ReasonNotifyOnly)
    [] policy = AutoPatch ->
         IF latestVer.Major # currentVer.Major \/ latestVer.Minor # currentVer.Minor
           THEN Decision(FALSE, ReasonPatchOnly)
           ELSE Decision(TRUE, ReasonPatchAllowed)
    [] policy = AutoMinor ->
         IF latestVer.Major # currentVer.Major \/ latestVer.Minor = currentVer.Minor
           THEN Decision(FALSE, ReasonMinorOnly)
           ELSE Decision(TRUE, ReasonMinorAllowed)
    [] policy = AutoAll -> Decision(TRUE, ReasonAutoAll)
    [] OTHER -> Decision(FALSE, ReasonUnknownPolicy(policy))

\* The switch on the policy at the end of IsUpdateAllowed.
ApplyPolicy(currentVer, latestVer, policy) ==
  CASE policy = NotifyOnly -> Decision(FALSE, ReasonNotifyOnly)
    [] policy = AutoPatch ->
         IF latestVer.Major # currentVer.Major \/ latestVer.Minor # currentVer.Minor
           THEN Decision(FALSE, ReasonPatchOnly)
           ELSE Decision(TRUE, ReasonPatchAllowed)
    [] policy = AutoMinor ->
         IF latestVer.Major # currentVer.Major
           THEN Decision(FALSE, ReasonMinorOnly)
           ELSE Decision(TRUE, ReasonMinorAllowed)
    [] policy = AutoAll -> Decision(TRUE, ReasonAutoAll)
    [] OTHER -> Decision(FALSE, ReasonUnknownPolicy(policy))

\* CheckPin with the policy switch evaluated before the pin.
CheckPinAfterPolicy(currentVer, latestVer, policy, pin) ==
  IF ~ApplyPolicy(currentVer, latestVer, policy).allowed
    THEN ApplyPolicy(currentVer, latestVer, policy)
  ELSE IF pin # << >> /\ Atoi(pin).err
    THEN Decision(FALSE, ReasonInvalidPin(pin))
  ELSE IF pin # << >> /\ latestVer.Major # Atoi(pin).val
    THEN Decision(FALSE, ReasonPinBoundary(Atoi(pin).val))
  ELSE ApplyPolicy(currentVer, latestVer, policy)

\* The pin check of IsUpdateAllowed, followed by the policy switch.
CheckPin(currentVer, latestVer, policy, pin) ==
  IF pin # << >> /\ Atoi(pin).err
    THEN Decision(FALSE, ReasonInvalidPin(pin))
  ELSE IF pin # << >> /\ latestVer.Major # Atoi(pin).val
    THEN Decision(FALSE, ReasonPinBoundary(Atoi(pin).val))
  ELSE ApplyPolicy(currentVer, latestVer, policy)

\* NonSemverCurrent without the comparison of the two tag texts.
NonSemverCurrentIgnoresText(current, latest, policy) ==
  IF policy = AutoAll
    THEN Decision(TRUE, ReasonNonSemverAutoAll)
    ELSE Decision(FALSE, ReasonNonSemver(policy))

\* The branch of IsUpdateAllowed for a current tag that is not semver.
NonSemverCurrent(current, latest, policy) ==
  IF policy = AutoAll
    THEN Decision(current # latest, ReasonNonSemverAutoAll)
    ELSE Decision(FALSE, ReasonNonSemver(policy))

\* IsUpdateAllowed with the backwards check "< 0" instead of "<= 0".
IsUpdateAllowedAllowsEqual(current, latest, policy, pin) ==
  LET currentVer == ParseVersion(current)
      latestVer  == ParseVersion(latest)
  IN  IF currentVer.err THEN NonSemverCurrent(current, latest, policy)
      ELSE IF latestVer.err
        THEN Decision(FALSE, ReasonLatestNotSemver(latest))
      ELSE IF Compare(latestVer, currentVer) < 0
        THEN Decision(FALSE, ReasonNotNewer)
      ELSE CheckPin(currentVer, latestVer, policy, pin)

\* IsUpdateAllowed without the check that the candidate is newer.
IsUpdateAllowedSkipsNewerCheck(current, latest, policy, pin) ==
  LET currentVer == ParseVersion(current)
      latestVer  == ParseVersion(latest)
  IN  IF currentVer.err THEN NonSemverCurrent(current, latest, policy)
      ELSE IF latestVer.err
        THEN Decision(FALSE, ReasonLatestNotSemver(latest))
      ELSE CheckPin(currentVer, latestVer, policy, pin)

\* IsUpdateAllowed treating an unparseable candidate like an unparseable
\* current tag.
IsUpdateAllowedTextFallback(current, latest, policy, pin) ==
  LET currentVer == ParseVersion(current)
      latestVer  == ParseVersion(latest)
  IN  IF currentVer.err \/ latestVer.err
        THEN NonSemverCurrent(current, latest, policy)
      ELSE IF Compare(latestVer, currentVer) <= 0
        THEN Decision(FALSE, ReasonNotNewer)
      ELSE CheckPin(currentVer, latestVer, policy, pin)

\* IsUpdateAllowed(current, latest, policy, pin) -> (allowed, reason)
IsUpdateAllowed(current, latest, policy, pin) ==
  LET currentVer == ParseVersion(current)
      latestVer  == ParseVersion(latest)
  IN  IF currentVer.err THEN NonSemverCurrent(current, latest, policy)
      ELSE IF latestVer.err
        THEN Decision(FALSE, ReasonLatestNotSemver(latest))
      ELSE IF Compare(latestVer, currentVer) <= 0
        THEN Decision(FALSE, ReasonNotNewer)
      ELSE CheckPin(currentVer, latestVer, policy, pin)

\* FilterPrereleaseTags: the tags that contain no exclude pattern, in order.
FilterPrereleaseTags(tags, excludePatterns) ==
  SelectSeq(tags, LAMBDA tag :
    ~\E k \in 1..Len(excludePatterns) : Contains(tag, excludePatterns[k]))

\* The result (tag, error) of a tag selection.
TagOK(tag) == [ err |-> "", tag |-> tag ]
TagErr(msg) == [ err |-> msg, tag |-> << >> ]

\* The tag of a sequence that is greatest under the Go string order, the
\* first such tag winning (latest := tags[0]; if tag > latest ...).
RECURSIVE LexLargest(_)
LexLargest(tags) ==
  IF Len(tags) = 1 THEN tags[1]
  ELSE LET latest == LexLargest(SubSeq(tags, 1, Len(tags) - 1))
           tag    == tags[Len(tags)]
       IN  IF StrCompare(tag, latest) > 0 THEN tag ELSE latest

\* The version of a non-empty sequence that is highest under Compare, the
\* first such version winning (if version.Compare(latest) > 0 ...).
RECURSIVE HighestVersion(_)
HighestVersion(versions) ==
  IF Len(versions) = 1 THEN versions[1]
  ELSE LET latest  == HighestVersion(SubSeq(versions, 1, Len(versions) - 1))
           version == versions[Len(versions)]
       IN  IF Compare(version, latest) > 0 THEN version ELSE latest

\* The versions FindLatestVersion collects: tags that parse and have no
\* prerelease.
StableVersions(tags) ==
  LET parsed == [ i \in 1..Len(tags) |-> ParseVersion(tags[i]) ]
  IN  SelectSeq(parsed, LAMBDA ver : ~ver.err /\ ver.Prerelease = << >>)

\* FindLatestVersion(tags) -> (tag, error)
FindLatestVersion(tags) ==
  IF Len(StableVersions(tags)) = 0
    THEN IF Len(tags) = 0 THEN TagErr("no tags found")
         ELSE TagOK(LexLargest(tags))
    ELSE TagOK(HighestVersion(StableVersions(tags)).Original)

(***************************************************************************)
(* internal/registry                                                       *)
(***************************************************************************)

\* filterTags with only the first exclude pattern looked at.
filterTagsFirstPatternOnly(tags, excludePatterns) ==
  SelectSeq(tags, LAMBDA tag :
    ~(Len(excludePatterns) > 0 /\ Contains(tag, excludePatterns[1])))

\* filterTags: the tags that contain no exclude pattern, in order.
filterTags(tags, excludePatterns) ==
  SelectSeq(tags, LAMBDA tag :
    ~\E k \in 1..Len(excludePatterns) : Contains(tag, excludePatterns[k]))

\* numPart[0] of strings.FieldsFunc(s, non-digit): the first maximal run of
\* digits of s, or the empty string when s has no digit.
FirstDigitRun(s) ==
  LET ds == { i \in 1..Len(s) : s[i] \in Digits }
  IN  IF ds = {} THEN << >>
      ELSE LET from == SetMin(ds)
               stop == { i \in from..Len(s) : s[i] \notin Digits }
               to   == IF stop = {} THEN Len(s) ELSE SetMin(stop) - 1
           IN  SubSeq(s, from, to)

\* parseSimpleVersion(v) -> ([3]int, error)
parseSimpleVersion(v) ==
  LET parts == Split(TrimPrefixV(v), ".")
  IN  IF Len(parts) < 3 THEN [ err |-> TRUE, version |-> << 0, 0, 0 >> ]
      ELSE IF \E i \in 1..3 : FirstDigitRun(parts[i]) = << >>
        THEN [ err |-> TRUE, version |-> << 0, 0, 0 >> ]
      ELSE [ err |-> FALSE,
             version |-> [ i \in 1..3 |-> Atoi(FirstDigitRun(parts[i])).val ] ]

\* compareVersions(a, b): the sign of the result is what GetLatestTag uses.
compareVersions(a, b) ==
  LET verA == parseSimpleVersion(a)
      verB == parseSimpleVersion(b)
  IN  IF ~verA.err /\ ~verB.err
        THEN IF verA.version[1] # verB.version[1]
               THEN verA.version[1] - verB.version[1]
             ELSE IF verA.version[2] # verB.version[2]
               THEN verA.version[2] - verB.version[2]
             ELSE IF verA.version[3] # verB.version[3]
               THEN verA.version[3] - verB.version[3]
             ELSE 0
        ELSE StrCompare(a, b)

\* The less function GetLatestTag hands to sort.Slice.
TagLess(x, y) == compareVersions(x, y) > 0

\* The inner loop of the insertion sort: element j moves left while it is
\* less than its left neighbour.
RECURSIVE SiftLeft(_, _)
SiftLeft(data, j) ==
  IF j > 1 /\ TagLess(data[j], data[j - 1])
    THEN SiftLeft([ data EXCEPT ![j] = data[j - 1], ![j - 1] = data[j] ], j - 1)
    ELSE data

\* sort.Slice on a slice of at most 12 elements is an insertion sort
\* (for i := a + 1; i < b; i++ { for j := i; j > a && less(j, j-1); j-- { swap } }).
RECURSIVE InsertionSortFrom(_, _)
InsertionSortFrom(data, i) ==
  IF i > Len(data) THEN data ELSE InsertionSortFrom(SiftLeft(data, i), i + 1)

SortSlice(data) == InsertionSortFrom(data, 2)

\* GetLatestTag falling back to the unfiltered list when every tag is excluded.
GetLatestTagUnfilteredFallback(tagNames, excludePatterns) ==
  IF Len(tagNames) = 0 THEN TagErr("no tags found for image")
  ELSE IF Len(filterTags(tagNames, excludePatterns)) = 0
    THEN TagOK(SortSlice(tagNames)[1])
  ELSE TagOK(SortSlice(filterTags(tagNames, excludePatterns))[1])

\* GetLatestTag, after GetTags returned tagNames without an error.
GetLatestTag(tagNames, excludePatterns) ==
  IF Len(tagNames) = 0 THEN TagErr("no tags found for image")
  ELSE IF Len(filterTags(tagNames, excludePatterns)) = 0
    THEN TagErr("no stable tags found after filtering")
  ELSE TagOK(SortSlice(filterTags(tagNames, excludePatterns))[1])

(***************************************************************************)
(* internal/coolify, internal/config                                       *)
(***************************************************************************)

SetMax(S) == CHOOSE x \in S : \A y \in S : x >= y

\* ExtractImageAndTag(dockerImage) -> (image, tag): split at the last colon,
\* unless what follows it contains a slash (a registry port).
ExtractImageAndTag(dockerImage) ==
  LET colons == { i \in 1..Len(dockerImage) : dockerImage[i] = ":" }
      lastColon == SetMax(colons)
      afterColon == SubSeq(dockerImage, lastColon + 1, Len(dockerImage))
      latest == << "l", "a", "t", "e", "s", "t" >>
  IN  IF colons = {} THEN [ image |-> dockerImage, tag |-> latest ]
      ELSE IF Contains(afterColon, << "/" >>)
        THEN [ image |-> dockerImage, tag |-> latest ]
      ELSE [ image |-> SubSeq(dockerImage, 1, lastColon - 1), tag |-> afterColon ]

\* BuildImageReference(image, tag): "%s:%s"
BuildImageReference(image, tag) == image \o << ":" >> \o tag

\* GetUpdatePolicy: the application's policy, or the default when it has none.
GetUpdatePolicy(app, defaults) ==
  IF app.Policy # "" THEN app.Policy ELSE defaults.Policy

(***************************************************************************)
(* State                                                                   *)
(***************************************************************************)

VARIABLES
  pc,       \* position of the caller of a pure function: "call" or "return"
  input,    \* the arguments of the function under evaluation
  output,   \* its result, meaningful once pc = "return"
  prev,     \* the previous call of the same function: its input and output
  \* the Watcher (watcher.go:20-31); pc is then the worker's position:
  \* "idle" between cycles, "checking" before an application's check,
  \* "sleeping" in the delay after one
  config,       \* Watcher.config: Apps and Defaults
  dryRun,       \* Watcher.dryRun
  appStatuses,  \* Watcher.appStatuses: UUID -> AppStatus
  lastUpdates,  \* Watcher.lastUpdates: UUID -> time
  lastCheck,    \* Watcher.lastCheck
  apps,         \* checkApplications: the application list of the cycle
  idx,          \* checkApplications: the loop index i (1-based)
  \* the world around the watcher
  now,          \* the clock, in units of the 30s update delay
  coolify,      \* the deployment controller: UUID -> application
  registry,     \* the registry: image -> tag listing
  calls,        \* the update and restart requests sent to the controller
  cycleUpdates, \* the UpdateApplication requests of the current cycle:
                \* UUID -> time of the request
  \* the process around the watcher
  main,         \* func main: its position, flags, context and channels
  handler       \* Server.statusHandler: the GetStatus call it is in

funcVars == << input, output, prev >>
watcherVars ==
  << config, dryRun, appStatuses, lastUpdates, lastCheck, apps, idx,
     now, coolify, registry, calls, cycleUpdates >>
procVars == << main, handler >>
vars == << pc, funcVars, watcherVars, procVars >>

(***************************************************************************)
(* Inputs of the decision engine                                           *)
(***************************************************************************)

\* Version components range over 0..MaxNum.
MaxNum == 2

Nums == 0..MaxNum

\* "<major>.<minor>.<patch>"
Ver(a, b, c) == Itoa(a) \o << "." >> \o Itoa(b) \o << "." >> \o Itoa(c)

PlainVersionTags == { Ver(a, b, c) : a \in Nums, b \in Nums, c \in Nums }

\* Versions with a "v" prefix, prerelease, build metadata, two digits or a
\* leading zero.
DecoratedVersionTags ==
  { << "v" >> \o Ver(1, 0, 1),
    Ver(1, 0, 1) \o << "-", "a" >>,
    Ver(1, 0, 1) \o << "-", "b" >>,
    Ver(1, 0, 1) \o << "+", "b" >>,
    Ver(1, 0, 1) \o << "-", "a", "+", "b" >>,
    Ver(10, 0, 0),
    << "0" >> \o Ver(1, 1, 0) }

\* Tags that semverRegex rejects.
NonSemverTags ==
  { << "l", "a", "t", "e", "s", "t" >>,
    << "s", "t", "a", "b", "l", "e" >>,
    << "e", "d", "g", "e" >>,
    << "1", ".", "0" >>,
    << "1" >>,
    Ver(1, 0, 0) \o << ".", "1" >>,
    Ver(1, 0, 0) \o << "_", "x" >>,
    Ver(2, 0, 0) \o << "-" >>,
    << "v" >> }

DecideTags == PlainVersionTags \cup DecoratedVersionTags \cup NonSemverTags

\* Pin strings: unset, integers, and values strconv.Atoi rejects.
Pins == { << >>, << "x" >>, << "1", "x" >>, Itoa(10) } \cup { Itoa(n) : n \in Nums }

\* Policy strings: the four policies and one unknown value.
PolicyInputs == Policies \cup { "auto-major" }

NoDecision == Decision(FALSE, << >>)

(***************************************************************************)
(* Evaluating IsUpdateAllowed on every input                               *)
(***************************************************************************)

NoCall == [ called |-> FALSE, input |-> << >>, output |-> NoDecision ]

EmptyMap == [ u \in {} |-> 0 ]

\* func main is not part of the run.
NoMain == [ at |-> "" ]

\* The status handler before a request: no GetStatus call in progress.
NoHandler ==
  [ at |-> "idle", seen |-> EmptyMap,
    response |-> [ LastCheck |-> 0 - 1, Apps |-> EmptyMap ] ]

\* No watcher is running while a function is evaluated on its own.
NoWatcher ==
  /\ config = [ Apps |-> << >>,
                Defaults |-> [ Policy |-> AutoPatch, Cooldown |-> 0,
                               ExcludePatterns |-> << >> ] ]
  /\ dryRun = FALSE
  /\ appStatuses = EmptyMap
  /\ lastUpdates = EmptyMap
  /\ lastCheck = 0
  /\ apps = << >>
  /\ idx = 0
  /\ now = 0
  /\ coolify = EmptyMap
  /\ registry = EmptyMap
  /\ calls = {}
  /\ cycleUpdates = EmptyMap
  /\ main = NoMain
  /\ handler = NoHandler

InitDecide ==
  /\ pc = "call"
  /\ input \in [ current : DecideTags, latest : DecideTags,
                 policy : PolicyInputs, pin : Pins ]
  /\ output = NoDecision
  /\ prev = NoCall
  /\ NoWatcher

\* result := IsUpdateAllowed(current, latest, policy, pin)
CallIsUpdateAllowed ==
  /\ pc = "call"
  /\ output' = IsUpdateAllowed(input.current, input.latest, input.policy, input.pin)
  /\ pc' = "return"
  /\ UNCHANGED << input, prev, watcherVars, procVars >>

NextDecide == CallIsUpdateAllowed

SpecDecide == InitDecide /\ [][NextDecide]_vars

\* Abbreviations for the claims about IsUpdateAllowed.
Returned == pc = "return"
CurVer == ParseVersion(input.current)
CandVer == ParseVersion(input.latest)
BothParse == ~CurVer.err /\ ~CandVer.err
StrictlyNewer == BothParse /\ Compare(CandVer, CurVer) > 0
PinSet == input.pin # << >>
PinIsInteger == PinSet /\ ~Atoi(input.pin).err
\* the pin, if set, is an integer equal to the candidate's major
PinSatisfied == PinSet => (PinIsInteger /\ Atoi(input.pin).val = CandVer.Major)


\* C3: when both tags parse and the candidate is equal to or lower than the
\* current tag, IsUpdateAllowed denies with the not-newer reason under every
\* policy and pin; an allowed decision between two parsed versions is always
\* a strict upgrade.
C3_NotNewerDenied ==
  Returned /\ BothParse =>
    /\ Compare(CandVer, CurVer) <= 0 => output = Decision(FALSE, ReasonNotNewer)
    /\ output.allowed => Compare(CandVer, CurVer) > 0

\* a regression between two parsed versions, evaluated under auto-all with a
\* pin that the candidate satisfies
C3_Witness ==
  /\ Returned /\ BothParse
  /\ Compare(CandVer, CurVer) < 0
  /\ input.policy = AutoAll
  /\ PinIsInteger /\ Atoi(input.pin).val = CandVer.Major
  /\ output = Decision(FALSE, ReasonNotNewer)

SameMajor == CandVer.Major = CurVer.Major
SameMinor == CandVer.Minor = CurVer.Minor

\* C4: when both tags parse, the candidate is strictly newer and the pin (if
\* set) equals the candidate's major: auto-patch allows exactly when major
\* and minor are unchanged and otherwise denies with the patch-only reason;
\* auto-minor allows exactly when the major is unchanged and otherwise denies
\* with the major-change reason; auto-all always allows.
C4_PolicyEvaluation ==
  Returned /\ StrictlyNewer /\ PinSatisfied =>
    /\ input.policy = AutoPatch =>
         /\ output.allowed <=> (SameMajor /\ SameMinor)
         /\ ~output.allowed => output.reason = ReasonPatchOnly
    /\ input.policy = AutoMinor =>
         /\ output.allowed <=> SameMajor
         /\ ~output.allowed => output.reason = ReasonMinorOnly
    /\ input.policy = AutoAll => output.allowed

\* a minor bump inside the pinned major, denied by auto-patch
C4_Witness ==
  /\ Returned /\ StrictlyNewer /\ PinSet /\ PinSatisfied
  /\ input.policy = AutoPatch
  /\ SameMajor /\ ~SameMinor
  /\ output = Decision(FALSE, ReasonPatchOnly)

\* C5: when both tags parse, the candidate is strictly newer and the pin is
\* an integer different from the candidate's major, IsUpdateAllowed denies
\* with the pin-boundary reason under each of the four policies.
C5_PinBeforePolicy ==
  Returned /\ StrictlyNewer /\ PinIsInteger
    /\ CandVer.Major # Atoi(input.pin).val /\ input.policy \in Policies =>
    output = Decision(FALSE, ReasonPinBoundary(Atoi(input.pin).val))

\* a patch bump outside the pin under notify-only: the pin reason is reported
C5_Witness ==
  /\ Returned /\ StrictlyNewer /\ PinIsInteger
  /\ CandVer.Major # Atoi(input.pin).val
  /\ input.policy = NotifyOnly
  /\ SameMajor /\ SameMinor
  /\ output.reason = ReasonPinBoundary(Atoi(input.pin).val)

C7_CandidateNotVersioned ==
  Returned /\ ~CurVer.err /\ CandVer.err =>
    output = Decision(FALSE, ReasonLatestNotSemver(input.latest))

\* a versioned current tag and the alias "stable" as candidate, under auto-all
C7_Witness ==
  /\ Returned /\ ~CurVer.err /\ CandVer.err
  /\ input.policy = AutoAll
  /\ input.latest = << "s", "t", "a", "b", "l", "e" >>
  /\ ~output.allowed


(***************************************************************************)
(* Two successive calls of IsUpdateAllowed, to compare their results       *)
(***************************************************************************)

TwiceTags ==
  { << "l", "a", "t", "e", "s", "t" >>,
    << "s", "t", "a", "b", "l", "e" >>,
    Ver(1, 0, 0), Ver(1, 0, 1), Ver(1, 1, 0), Ver(2, 0, 0) }

TwiceInputs ==
  [ current : TwiceTags, latest : TwiceTags,
    policy : Policies, pin : { << >>, << "1" >> } ]

InitDecideTwice ==
  /\ pc = "call"
  /\ input \in TwiceInputs
  /\ output = NoDecision
  /\ prev = NoCall
  /\ NoWatcher

\* The caller keeps the first result and calls again with other arguments.
CallAgain ==
  /\ pc = "return"
  /\ ~prev.called
  /\ prev' = [ called |-> TRUE, input |-> input, output |-> output ]
  /\ input' \in TwiceInputs
  /\ output' = NoDecision
  /\ pc' = "call"
  /\ UNCHANGED << watcherVars, procVars >>

NextDecideTwice == CallIsUpdateAllowed \/ CallAgain

SpecDecideTwice == InitDecideTwice /\ [][NextDecideTwice]_vars

\* C8: the reason returned by IsUpdateAllowed is distinct per outcome and
\* stable: a reason value is never returned both with allowed = TRUE and with
\* allowed = FALSE, and equal inputs give the equal (allowed, reason) pair.
C8_ReasonDeterminesOutcome ==
  Returned /\ prev.called =>
    /\ output.reason = prev.output.reason => output.allowed = prev.output.allowed
    /\ input = prev.input => output = prev.output

\* C36: of two calls of IsUpdateAllowed with the same current tag, candidate
\* and pin, the call under auto-minor allows whenever the call under
\* auto-patch does, and the call under auto-all allows whenever the call
\* under auto-minor does; a call under notify-only never allows.
C36_PoliciesOrdered ==
  /\ Returned /\ input.policy = NotifyOnly => ~output.allowed
  /\ ( /\ Returned /\ prev.called
       /\ input.current = prev.input.current
       /\ input.latest = prev.input.latest
       /\ input.pin = prev.input.pin
       /\ prev.output.allowed )
     => /\ prev.input.policy # NotifyOnly
        /\ (prev.input.policy = AutoPatch /\ input.policy = AutoMinor) => output.allowed
        /\ (prev.input.policy = AutoMinor /\ input.policy = AutoAll) => output.allowed
        /\ (prev.input.policy = AutoPatch /\ input.policy = AutoAll) => output.allowed

\* the patch release 1.0.1 inside the pinned major 1, allowed under
\* auto-patch by the first call and under auto-minor by the second
C36_Witness ==
  /\ Returned /\ prev.called
  /\ prev.input = [ current |-> Ver(1, 0, 0), latest |-> Ver(1, 0, 1),
                    policy |-> AutoPatch, pin |-> << "1" >> ]
  /\ input = [ prev.input EXCEPT !.policy = AutoMinor ]
  /\ prev.output.allowed
  /\ output = Decision(TRUE, ReasonMinorAllowed)


(***************************************************************************)
(* Selecting the latest tag from every tag list                            *)
(***************************************************************************)

\* Tag lists have at most MaxTags entries.
MaxTags == 3

SelectTags ==
  { Ver(1, 0, 0), Ver(1, 1, 0), Ver(2, 0, 0), Ver(9, 0, 0), Ver(10, 0, 0),
    Ver(1, 1, 0) \o << "-", "a" >>,
    Ver(2, 0, 0) \o << "-", "b" >>,
    Ver(1, 1, 0) \o << "-", "A" >>,
    Ver(1, 0, 0) \o << ".", "1" >>,
    Ver(1, 0, 0) \o << ".", "2" >>,
    << "l", "a", "t", "e", "s", "t" >>,
    << "s", "t", "a", "b", "l", "e" >>,
    << "e", "d", "g", "e" >> }

TagLists == UNION { [ 1..n -> SelectTags ] : n \in 0..MaxTags }

\* Exclude pattern lists: none, "-a", "-a" and "-b", "e".
ExcludeChoices ==
  { << >>,
    << << "-", "a" >> >>,
    << << "-", "a" >>, << "-", "b" >> >>,
    << << "e" >> >> }

NoTag == [ fn |-> "", filtered |-> << >>, result |-> TagErr("") ]

InitSelect ==
  /\ pc = "call"
  /\ input \in [ tags : TagLists, excludePatterns : ExcludeChoices ]
  /\ output = NoTag
  /\ prev = NoCall
  /\ NoWatcher

\* registry.Client.GetLatestTag on a successful tag listing
CallGetLatestTag ==
  /\ pc = "call"
  /\ output' = [ fn |-> "GetLatestTag",
                 filtered |-> filterTags(input.tags, input.excludePatterns),
                 result |-> GetLatestTag(input.tags, input.excludePatterns) ]
  /\ pc' = "return"
  /\ UNCHANGED << input, prev, watcherVars, procVars >>

\* semver.FindLatestVersion(semver.FilterPrereleaseTags(tags, patterns))
CallFindLatestVersion ==
  /\ pc = "call"
  /\ output' = [ fn |-> "FindLatestVersion",
                 filtered |-> FilterPrereleaseTags(input.tags, input.excludePatterns),
                 result |-> FindLatestVersion(
                   FilterPrereleaseTags(input.tags, input.excludePatterns)) ]
  /\ pc' = "return"
  /\ UNCHANGED << input, prev, watcherVars, procVars >>

NextSelect == CallGetLatestTag \/ CallFindLatestVersion

SpecSelect == InitSelect /\ [][NextSelect]_vars

\* The tag set that remains after exclusion, and its versioned members.
Filtered == filterTags(input.tags, input.excludePatterns)
Versioned == { i \in 1..Len(Filtered) : ~ParseVersion(Filtered[i]).err }

\* C9: if the filtered tag set contains a tag that parses as a version, the
\* tag GetLatestTag selects for the watcher is a versioned tag that is maximal
\* under Compare; an unversioned alias is never selected.
C9_VersionedTagsWin ==
  Returned /\ output.fn = "GetLatestTag" /\ Versioned # {} =>
    /\ output.result.err = ""
    /\ ~ParseVersion(output.result.tag).err
    /\ \A i \in Versioned :
         Compare(ParseVersion(Filtered[i]), ParseVersion(output.result.tag)) <= 0

\* C10: if no tag of the filtered set parses as a version, the selected tag
\* is the greatest tag of the filtered set under the string order.
C10_LexicographicFallback ==
  Returned /\ Filtered # << >> /\ Versioned = {} =>
    /\ output.result.err = ""
    /\ \E i \in 1..Len(Filtered) : Filtered[i] = output.result.tag
    /\ \A i \in 1..Len(Filtered) : StrCompare(Filtered[i], output.result.tag) <= 0

\* The positions of the input tags that contain no exclude pattern.
KeptPositions ==
  { i \in 1..Len(input.tags) :
      \A k \in 1..Len(input.excludePatterns) :
        \A at \in 1..(Len(input.tags[i]) - Len(input.excludePatterns[k]) + 1) :
          SubSeq(input.tags[i], at, at + Len(input.excludePatterns[k]) - 1)
            # input.excludePatterns[k] }

\* C11: filterTags and FilterPrereleaseTags drop exactly the tags that
\* contain an exclude pattern as a case-sensitive substring and keep the
\* other tags in their original order; the tag selected as latest contains
\* no exclude pattern.
C11_FilterDropsExactlyExcluded ==
  Returned =>
    /\ Len(output.filtered) = Cardinality(KeptPositions)
    /\ \A i \in KeptPositions :
         output.filtered[Cardinality({ j \in KeptPositions : j <= i })] = input.tags[i]
    /\ output.result.err = "" =>
         \A k \in 1..Len(input.excludePatterns) :
           ~Contains(output.result.tag, input.excludePatterns[k])

\* the list 1.1.0-a, 1.1.0-A, 1.1.0 filtered with "-a" and "-b": the first
\* tag is dropped, the upper-case one and the release are kept in order
C11_Witness ==
  /\ Returned
  /\ input.tags = << Ver(1, 1, 0) \o << "-", "a" >>, Ver(1, 1, 0) \o << "-", "A" >>,
                     Ver(1, 1, 0) >>
  /\ input.excludePatterns = << << "-", "a" >>, << "-", "b" >> >>
  /\ output.filtered = << Ver(1, 1, 0) \o << "-", "A" >>, Ver(1, 1, 0) >>
  /\ output.result.err = ""

\* C37: the tag GetLatestTag selects depends on the set of tags and the
\* exclude patterns only: called on any permutation of the listing it
\* returns the same result.
C37_OrderIndependent ==
  (pc = "return" /\ output.fn = "GetLatestTag") =>
    \A p \in Permutations(1..Len(input.tags)) :
      GetLatestTag([ i \in 1..Len(input.tags) |-> input.tags[p[i]] ],
                   input.excludePatterns) = output.result


(***************************************************************************)
(* Comparing parsed versions                                               *)
(***************************************************************************)

CompareCores == { Ver(1, 0, 0), Ver(1, 0, 1), Ver(1, 1, 0), Ver(2, 0, 0), Ver(10, 0, 0) }

ComparePrereleases == { << >>, << "-", "a" >>, << "-", "a", "b" >>, << "-", "A" >> }

CompareBuilds == { << >>, << "+", "b" >> }

\* Tags that all parse: a core, an optional prerelease, an optional build.
CompareTags ==
  { core \o pre \o build :
      core \in CompareCores, pre \in ComparePrereleases, build \in CompareBuilds }

NoComparison == [ aa |-> 0, ab |-> 0, ba |-> 0, bc |-> 0, ac |-> 0 ]

InitCompare ==
  /\ pc = "call"
  /\ input \in [ a : CompareTags, b : CompareTags, c : CompareTags ]
  /\ output = NoComparison
  /\ prev = NoCall
  /\ NoWatcher

\* Version.Compare on the parsed tags, pair by pair.
CallCompare ==
  /\ pc = "call"
  /\ LET a == ParseVersion(input.a)
         b == ParseVersion(input.b)
         c == ParseVersion(input.c)
     IN  output' = [ aa |-> Compare(a, a), ab |-> Compare(a, b), ba |-> Compare(b, a),
                     bc |-> Compare(b, c), ac |-> Compare(a, c) ]
  /\ pc' = "return"
  /\ UNCHANGED << input, prev, watcherVars, procVars >>

\* The caller compares again with the first two operands exchanged.
CompareAgain ==
  /\ pc = "return"
  /\ input' \in [ a : { input.b }, b : { input.a }, c : { input.c } ]
  /\ output' = NoComparison
  /\ pc' = "call"
  /\ UNCHANGED << prev, watcherVars, procVars >>

NextCompare == CallCompare \/ CompareAgain

SpecCompare == InitCompare /\ [][NextCompare]_vars

VerA == ParseVersion(input.a)
VerB == ParseVersion(input.b)
VerC == ParseVersion(input.c)

\* The numeric parts of a version, and the first position where two differ.
Numeric(ver) == << ver.Major, ver.Minor, ver.Patch >>
FirstDifference(x, y) == SetMin({ k \in 1..3 : Numeric(x)[k] # Numeric(y)[k] })

\* C13: Compare orders by major, minor, patch numerically, the first
\* difference deciding; with equal numeric parts a release is greater than a
\* prerelease, two prereleases are ordered byte-wise, two releases are equal;
\* versions that differ only in build metadata compare alike.
C13_CompareOrder ==
  Returned =>
    /\ ~VerA.err /\ ~VerB.err /\ ~VerC.err
    /\ Numeric(VerA) # Numeric(VerB) =>
         output.ab = IF Numeric(VerA)[FirstDifference(VerA, VerB)]
                          < Numeric(VerB)[FirstDifference(VerA, VerB)] THEN -1 ELSE 1
    /\ Numeric(VerA) = Numeric(VerB) =>
         /\ VerA.Prerelease = << >> /\ VerB.Prerelease # << >> => output.ab = 1
         /\ VerA.Prerelease # << >> /\ VerB.Prerelease = << >> => output.ab = -1
         /\ VerA.Prerelease # << >> /\ VerB.Prerelease # << >> =>
              output.ab = StrCompare(VerA.Prerelease, VerB.Prerelease)
         /\ VerA.Prerelease = << >> /\ VerB.Prerelease = << >> => output.ab = 0
    /\ ( Numeric(VerB) = Numeric(VerC) /\ VerB.Prerelease = VerC.Prerelease ) =>
         output.ab = output.ac

\* 10.0.0 against 2.0.0 (numeric, not textual); 1.0.0-a+b against 1.0.0-ab
\* with the build dropped on one side
C13_Witness ==
  /\ Returned
  /\ input.a = Ver(10, 0, 0) /\ input.b = Ver(2, 0, 0) \o << "+", "b" >>
  /\ input.c = Ver(2, 0, 0)
  /\ VerA.Major = 10 /\ VerB.Build = << "b" >> /\ VerC.Build = << >>
  /\ output.ab = 1 /\ output.ac = 1 /\ output.bc = 0

\* C14, as claimed: Compare is reflexive, Compare(a, b) = -Compare(b, a),
\* Compare(a, b) = 0 only when a and b are the same version (the same
\* numbers, prerelease and build), and Compare is transitive.
C14_TotalOrder ==
  Returned =>
    /\ output.aa = 0
    /\ output.ab = 0 - output.ba
    /\ output.ab = 0 =>
         /\ Numeric(VerA) = Numeric(VerB)
         /\ VerA.Prerelease = VerB.Prerelease
         /\ VerA.Build = VerB.Build
    /\ output.ab <= 0 /\ output.bc <= 0 => output.ac <= 0

\* C14, amended: Compare is reflexive, Compare(a, b) = -Compare(b, a),
\* Compare(a, b) = 0 only when a and b have the same numbers and the same
\* prerelease (their build metadata may differ), and Compare is transitive.
C14_TotalOrderUpToBuild ==
  Returned =>
    /\ output.aa = 0
    /\ output.ab = 0 - output.ba
    /\ output.ab = 0 =>
         /\ Numeric(VerA) = Numeric(VerB)
         /\ VerA.Prerelease = VerB.Prerelease
    /\ output.ab <= 0 /\ output.bc <= 0 => output.ac <= 0

\* 1.0.0-A below 1.0.0-a+b, which ties with 1.0.0-a
C14_Witness ==
  /\ Returned
  /\ input.a = Ver(1, 0, 0) \o << "-", "A" >>
  /\ input.b = Ver(1, 0, 0) \o << "-", "a", "+", "b" >>
  /\ input.c = Ver(1, 0, 0) \o << "-", "a" >>
  /\ output.ab = -1 /\ output.ba = 1 /\ output.bc = 0 /\ output.ac = -1


(***************************************************************************)
(* internal/watcher: check cycles                                          *)
(***************************************************************************)

\* updateDelay, 30 * time.Second: the unit of the clock.
UpdateDelay == 1

\* The clock stops at MaxTime.
MaxTime == 2

\* The configured cooldown, in clock units.
Cooldown == 2

\* A registry listing grows to at most MaxListing tags.
MaxListing == 1

NoTime == 0 - 1

ImageA == << "p", "g" >>
ImageB == << "h", ":", "5", "/", "x" >>

UUIDs == << "a", "b" >>

\* The exclude patterns of the configuration ("-a", "-b").
ExcludeDefaults == << << "-", "a" >>, << "-", "b" >> >>

\* Tags that appear in the registry of ImageA while the watcher runs.
PublishTags ==
  { Ver(1, 0, 1), Ver(1, 1, 0), Ver(2, 0, 0),
    Ver(1, 0, 1) \o << "-", "a" >> }

\* Tags application "a" is deployed with at start.
DeployedTags == { Ver(1, 0, 0), << "l", "a", "t", "e", "s", "t" >> }

\* A types.AppConfig.
AppConfig(uuid, image, policy, pin) ==
  [ Name |-> uuid, UUID |-> uuid, Image |-> image, Policy |-> policy, Pin |-> pin ]

\* A types.CoolifyApplication.
CoolifyApp(uuid, dockerImage) ==
  [ UUID |-> uuid, Name |-> uuid, DockerImage |-> dockerImage ]

\* NewWatcher: empty state maps; the worker has not started a cycle.
NewWatcher ==
  /\ pc = "idle"
  /\ appStatuses = EmptyMap
  /\ lastUpdates = EmptyMap
  /\ lastCheck = NoTime
  /\ apps = << >>
  /\ idx = 0
  /\ calls = {}
  /\ cycleUpdates = EmptyMap
  /\ main = NoMain
  /\ handler = NoHandler
  /\ now = 0
  /\ input = << >>
  /\ output = NoDecision
  /\ prev = NoCall

\* Two configured applications: "a" with any policy (or none) and an optional
\* pin to major 1, "b" with the default policy; "b" has a patch release
\* waiting in its registry.
Init ==
  /\ NewWatcher
  /\ \E policy \in Policies \cup { "" }, pin \in { << >>, << "1" >> },
        dflt \in { AutoPatch, NotifyOnly } :
       config = [ Apps |-> << AppConfig("a", ImageA, policy, pin),
                              AppConfig("b", ImageB, "", << >>) >>,
                  Defaults |-> [ Policy |-> dflt, Cooldown |-> Cooldown,
                                 ExcludePatterns |-> ExcludeDefaults ] ]
  /\ dryRun \in BOOLEAN
  /\ \E tag \in DeployedTags :
       coolify = [ u \in { "a", "b" } |->
                     IF u = "a" THEN CoolifyApp("a", BuildImageReference(ImageA, tag))
                     ELSE CoolifyApp("b", BuildImageReference(ImageB, Ver(1, 0, 0))) ]
  /\ registry = [ img \in { ImageA, ImageB } |->
                    IF img = ImageA THEN << >> ELSE << Ver(1, 0, 0), Ver(1, 0, 1) >> ]

\* ListApplications: the controller's applications, in its order.
ListApplications ==
  LET known == SelectSeq(UUIDs, LAMBDA u : u \in DOMAIN coolify)
  IN  [ k \in 1..Len(known) |-> coolify[known[k]] ]

\* Discovered with the applications tagged "latest" kept.
DiscoveredKeepsLatest ==
  [ k \in 1..Len(ListApplications) |->
      [ Name |-> ListApplications[k].Name, UUID |-> ListApplications[k].UUID,
        Image |-> ExtractImageAndTag(ListApplications[k].DockerImage).image,
        Policy |-> "", Pin |-> << >> ] ]

\* getApplicationsToCheck, auto-discovery branch: every application whose
\* declared tag is not "latest", with its image and no policy or pin.
Discovered ==
  LET kept == SelectSeq(ListApplications, LAMBDA c :
                ExtractImageAndTag(c.DockerImage).tag # << "l", "a", "t", "e", "s", "t" >>)
  IN  [ k \in 1..Len(kept) |->
          [ Name |-> kept[k].Name, UUID |-> kept[k].UUID,
            Image |-> ExtractImageAndTag(kept[k].DockerImage).image,
            Policy |-> "", Pin |-> << >> ] ]

\* The loop of checkApplications entered with the application list list.
EnterLoop(list) ==
  /\ apps' = list
  /\ IF Len(list) = 0
       THEN pc' = "idle" /\ idx' = 0
       ELSE pc' = "checking" /\ idx' = 1

\* checkApplications up to the loop: a trigger starts a cycle.
StartCycle ==
  /\ pc = "idle"
  /\ lastCheck' = now
  /\ IF Len(config.Apps) > 0
       THEN EnterLoop(config.Apps)
       ELSE \E listing \in { "ok", "error" } :
              IF listing = "ok" THEN EnterLoop(Discovered)
              ELSE pc' = "idle" /\ UNCHANGED << apps, idx >>
  /\ cycleUpdates' = EmptyMap
  /\ UNCHANGED << funcVars, procVars, config, dryRun, appStatuses, lastUpdates,
                  now, coolify, registry, calls >>

\* AfterIteration with an iteration's error returned out of the loop.
AfterIterationAbortsOnError(failed) ==
  IF failed \/ idx >= Len(apps) THEN pc' = "idle" /\ idx' = 0
  ELSE pc' = "sleeping" /\ idx' = idx

\* The loop of checkApplications after an iteration: an iteration that
\* returned an error continues at once, any other iteration sleeps unless it
\* was the last.
AfterIteration(failed) ==
  IF idx >= Len(apps) THEN pc' = "idle" /\ idx' = 0
  ELSE IF failed THEN pc' = "checking" /\ idx' = idx + 1
  ELSE pc' = "sleeping" /\ idx' = idx

UpdateCall(uuid, newImage) == [ op |-> "update", uuid |-> uuid, image |-> newImage ]
RestartCall(uuid) == [ op |-> "restart", uuid |-> uuid, image |-> << >> ]

\* The first network call of an iteration that fails, if the iteration gets
\* to it.
Failures ==
  { "none", "GetApplication", "GetApplication: not found", "GetTags",
    "UpdateApplication", "RestartApplication" }

\* EvaluationOnly with the dry-run flag not looked at.
EvaluationOnlyIgnoresDryRun(decision) == ~decision.allowed

\* checkAndUpdateApp stores the status without calling performUpdate when
\* the update is not allowed or the watcher runs dry.
EvaluationOnly(decision) == ~decision.allowed \/ dryRun

\* GetApplicationFailed with the application's entries dropped from the
\* state maps.
GetApplicationFailedForgets(app) ==
  /\ appStatuses' = [ u \in DOMAIN appStatuses \ { app.UUID } |-> appStatuses[u] ]
  /\ lastUpdates' = [ u \in DOMAIN lastUpdates \ { app.UUID } |-> lastUpdates[u] ]
  /\ AfterIteration(TRUE)
  /\ UNCHANGED << coolify, calls, cycleUpdates >>

\* checkAndUpdateApp when GetApplication returns an error (the controller
\* answers 404 for an application it does not have): the error is returned
\* before any state is touched, and the loop logs it and continues.
GetApplicationFailed(app) ==
  /\ AfterIteration(TRUE)
  /\ UNCHANGED << appStatuses, lastUpdates, coolify, calls, cycleUpdates >>

\* Iteration with the status of an evaluation-only check stored as the
\* whole map instead of as the application's entry.
IterationReplacesMap(app, failing, current, latest, decision) ==
  LET status   == [ Name |-> app.Name, UUID |-> app.UUID, Image |-> app.Image,
                    CurrentTag |-> current, LatestTag |-> latest.tag,
                    Policy |-> GetUpdatePolicy(app, config.Defaults),
                    UpdateNeeded |-> decision.allowed,
                    LastCheck |-> now, LastUpdate |-> NoTime ]
      newImage == BuildImageReference(app.Image, latest.tag)
      inCooldown == /\ app.UUID \in DOMAIN lastUpdates
                    /\ now - lastUpdates[app.UUID] < config.Defaults.Cooldown
  IN
  IF failing \in { "GetApplication", "GetApplication: not found" }
       \/ app.UUID \notin DOMAIN coolify
    THEN GetApplicationFailed(app)
  ELSE IF inCooldown
    THEN /\ AfterIteration(FALSE)
         /\ UNCHANGED << appStatuses, lastUpdates, coolify, calls, cycleUpdates >>
  ELSE IF failing = "GetTags" \/ latest.err # ""
    THEN /\ AfterIteration(TRUE)
         /\ UNCHANGED << appStatuses, lastUpdates, coolify, calls, cycleUpdates >>
  ELSE IF EvaluationOnly(decision)
    THEN /\ appStatuses' = (app.UUID :> status)
         /\ AfterIteration(FALSE)
         /\ UNCHANGED << lastUpdates, coolify, calls, cycleUpdates >>
  ELSE IF failing = "UpdateApplication"
    THEN /\ calls' = calls \cup { UpdateCall(app.UUID, newImage) }
         /\ cycleUpdates' = (app.UUID :> now) @@ cycleUpdates
         /\ AfterIteration(TRUE)
         /\ UNCHANGED << appStatuses, lastUpdates, coolify >>
  ELSE IF failing = "RestartApplication"
    THEN /\ calls' = calls \cup { UpdateCall(app.UUID, newImage), RestartCall(app.UUID) }
         /\ cycleUpdates' = (app.UUID :> now) @@ cycleUpdates
         /\ coolify' = [ coolify EXCEPT ![app.UUID].DockerImage = newImage ]
         /\ AfterIteration(TRUE)
         /\ UNCHANGED << appStatuses, lastUpdates >>
  ELSE /\ calls' = calls \cup { UpdateCall(app.UUID, newImage), RestartCall(app.UUID) }
       /\ cycleUpdates' = (app.UUID :> now) @@ cycleUpdates
       /\ coolify' = [ coolify EXCEPT ![app.UUID].DockerImage = newImage ]
       /\ lastUpdates' = (app.UUID :> now) @@ lastUpdates
       /\ appStatuses' =
            (app.UUID :> [ status EXCEPT !.LastUpdate = now ]) @@ appStatuses
       /\ AfterIteration(FALSE)

\* The effect of checkAndUpdateApp (with performUpdate) on application app
\* when the call named by failing fails; current is the tag the controller
\* reports, latest the result of GetLatestTag, decision that of
\* IsUpdateAllowed.
Iteration(app, failing, current, latest, decision) ==
  LET status   == [ Name |-> app.Name, UUID |-> app.UUID, Image |-> app.Image,
                    CurrentTag |-> current, LatestTag |-> latest.tag,
                    Policy |-> GetUpdatePolicy(app, config.Defaults),
                    UpdateNeeded |-> decision.allowed,
                    LastCheck |-> now, LastUpdate |-> NoTime ]
      newImage == BuildImageReference(app.Image, latest.tag)
      inCooldown == /\ app.UUID \in DOMAIN lastUpdates
                    /\ now - lastUpdates[app.UUID] < config.Defaults.Cooldown
  IN
  IF failing \in { "GetApplication", "GetApplication: not found" }
       \/ app.UUID \notin DOMAIN coolify
    THEN GetApplicationFailed(app)
  ELSE IF inCooldown
    THEN /\ AfterIteration(FALSE)
         /\ UNCHANGED << appStatuses, lastUpdates, coolify, calls, cycleUpdates >>
  ELSE IF failing = "GetTags" \/ latest.err # ""
    THEN /\ AfterIteration(TRUE)
         /\ UNCHANGED << appStatuses, lastUpdates, coolify, calls, cycleUpdates >>
  ELSE IF EvaluationOnly(decision)
    THEN /\ appStatuses' = (app.UUID :> status) @@ appStatuses
         /\ AfterIteration(FALSE)
         /\ UNCHANGED << lastUpdates, coolify, calls, cycleUpdates >>
  ELSE IF failing = "UpdateApplication"
    THEN /\ calls' = calls \cup { UpdateCall(app.UUID, newImage) }
         /\ cycleUpdates' = (app.UUID :> now) @@ cycleUpdates
         /\ AfterIteration(TRUE)
         /\ UNCHANGED << appStatuses, lastUpdates, coolify >>
  ELSE IF failing = "RestartApplication"
    THEN /\ calls' = calls \cup { UpdateCall(app.UUID, newImage), RestartCall(app.UUID) }
         /\ cycleUpdates' = (app.UUID :> now) @@ cycleUpdates
         /\ coolify' = [ coolify EXCEPT ![app.UUID].DockerImage = newImage ]
         /\ AfterIteration(TRUE)
         /\ UNCHANGED << appStatuses, lastUpdates >>
  ELSE /\ calls' = calls \cup { UpdateCall(app.UUID, newImage), RestartCall(app.UUID) }
       /\ cycleUpdates' = (app.UUID :> now) @@ cycleUpdates
       /\ coolify' = [ coolify EXCEPT ![app.UUID].DockerImage = newImage ]
       /\ lastUpdates' = (app.UUID :> now) @@ lastUpdates
       /\ appStatuses' =
            (app.UUID :> [ status EXCEPT !.LastUpdate = now ]) @@ appStatuses
       /\ AfterIteration(FALSE)

\* checkAndUpdateApp for the application at the loop index, under every
\* outcome of its network calls.
CheckAndUpdateApp ==
  /\ pc = "checking"
  /\ LET app     == apps[idx]
         current == ExtractImageAndTag(coolify[app.UUID].DockerImage).tag
         latest  == GetLatestTag(registry[app.Image], config.Defaults.ExcludePatterns)
         decision == IsUpdateAllowed(current, latest.tag,
                                     GetUpdatePolicy(app, config.Defaults), app.Pin)
     IN  \E failing \in Failures : Iteration(app, failing, current, latest, decision)
  /\ UNCHANGED << funcVars, procVars, config, dryRun, lastCheck, apps, now, registry >>

\* time.Sleep(updateDelay) between two iterations
Sleep ==
  /\ pc = "sleeping"
  /\ now + UpdateDelay <= MaxTime
  /\ now' = now + UpdateDelay
  /\ idx' = idx + 1
  /\ pc' = "checking"
  /\ UNCHANGED << funcVars, procVars, config, dryRun, appStatuses, lastUpdates, lastCheck,
                  apps, coolify, registry, calls, cycleUpdates >>

\* Time passes while the worker waits for the next trigger.
Wait ==
  /\ pc = "idle"
  /\ now < MaxTime
  /\ now' = now + 1
  /\ UNCHANGED << pc, funcVars, procVars, config, dryRun, appStatuses, lastUpdates,
                  lastCheck, apps, idx, coolify, registry, calls, cycleUpdates >>

\* A new tag of ImageA appears in the registry.  The listing of ImageA is
\* read only by the check of application "a", the first of a cycle, so a tag
\* published during a cycle has the effect of one published after it.
Publish ==
  /\ pc = "idle"
  /\ Len(registry[ImageA]) < MaxListing
  /\ \E tag \in PublishTags :
       /\ \A k \in 1..Len(registry[ImageA]) : registry[ImageA][k] # tag
       /\ registry' = [ registry EXCEPT ![ImageA] = Append(@, tag) ]
  /\ UNCHANGED << pc, funcVars, procVars, config, dryRun, appStatuses, lastUpdates,
                  lastCheck, apps, idx, now, coolify, calls, cycleUpdates >>

\* Application "a" is deleted at the controller, which from then on answers
\* 404 for it.
Delete ==
  /\ pc = "idle"
  /\ "a" \in DOMAIN coolify
  /\ coolify' = [ u \in DOMAIN coolify \ { "a" } |-> coolify[u] ]
  /\ UNCHANGED << pc, funcVars, procVars, config, dryRun, appStatuses, lastUpdates,
                  lastCheck, apps, idx, now, registry, calls, cycleUpdates >>

Next == StartCycle \/ CheckAndUpdateApp \/ Sleep \/ Wait \/ Publish \/ Delete

Spec == Init /\ [][Next]_vars


\* The configured applications and their effective policies.
ConfiguredApps == { config.Apps[k] : k \in 1..Len(config.Apps) }
EffectivePolicy(app) == GetUpdatePolicy(app, config.Defaults)
UpdateCalls == { c \in calls : c.op = "update" }

\* C1: every UpdateApplication request for an application configured with
\* an integer pin P targets a tag that is a version of major P.
C1_PinnedUpdatesStayInMajor ==
  \A c \in UpdateCalls : \A app \in ConfiguredApps :
    (app.UUID = c.uuid /\ app.Pin # << >> /\ ~Atoi(app.Pin).err) =>
      LET target == ParseVersion(ExtractImageAndTag(c.image).tag)
      IN  ~target.err /\ target.Major = Atoi(app.Pin).val

\* The watcher's runs together with the evaluations of IsUpdateAllowed on
\* every input.
InitAll == Init \/ InitDecide

NextAll == Next \/ NextDecide

SpecAll == InitAll /\ [][NextAll]_vars

\* C2: under notify-only IsUpdateAllowed denies every (current, candidate,
\* pin), and the watcher never sends an update or restart request for an
\* application whose effective policy is notify-only, nor records an update
\* as needed for it.
C2_NotifyOnlyNeverUpdates ==
  /\ Returned /\ input.policy = NotifyOnly => ~output.allowed
  /\ \A app \in ConfiguredApps :
       EffectivePolicy(app) = NotifyOnly =>
         /\ \A c \in calls : c.uuid # app.UUID
         /\ app.UUID \in DOMAIN appStatuses => ~appStatuses[app.UUID].UpdateNeeded

\* application "b" inherits notify-only from the defaults and was checked
\* outside dry-run while the patch release 1.0.1 was waiting for it
C2_Witness ==
  /\ ~dryRun
  /\ "b" \in DOMAIN appStatuses
  /\ \E app \in ConfiguredApps :
       app.UUID = "b" /\ app.Policy = "" /\ EffectivePolicy(app) = NotifyOnly
  /\ appStatuses["b"].CurrentTag = Ver(1, 0, 0)
  /\ appStatuses["b"].LatestTag = Ver(1, 0, 1)
  /\ ~appStatuses["b"].UpdateNeeded
  /\ \A c \in calls : c.uuid # "b"

\* C15: within a cycle the worker enters the 30s delay only after an
\* iteration that performed an update; an iteration that only evaluated
\* (cooldown skip, denied decision, dry-run) is followed by the next
\* application's check without a delay.
C15_DelayOnlyAfterUpdate ==
  [][ pc = "checking" /\ pc' = "sleeping" => lastUpdates' # lastUpdates ]_vars

\* C16: any two UpdateApplication requests of one check cycle are at least
\* the update delay apart, whatever the outcomes of the iterations.
C16_UpdateCallsSpaced ==
  \A u \in DOMAIN cycleUpdates : \A v \in DOMAIN cycleUpdates :
    u # v /\ cycleUpdates[u] <= cycleUpdates[v] =>
      cycleUpdates[v] - cycleUpdates[u] >= UpdateDelay

\* InCooldown with the window one clock unit short.
InCooldownEndsEarly(app) ==
  /\ app.UUID \in DOMAIN lastUpdates
  /\ now - lastUpdates[app.UUID] < config.Defaults.Cooldown - 1

\* The cooldown test of checkAndUpdateApp.
InCooldown(app) ==
  /\ app.UUID \in DOMAIN lastUpdates
  /\ now - lastUpdates[app.UUID] < config.Defaults.Cooldown

\* The application list entry with the given UUID.
AppOf(uuid) == CHOOSE app \in ConfiguredApps : app.UUID = uuid

\* C18: in dry-run mode no update or restart request is ever sent and no
\* cooldown time is recorded, while every stored status carries the tags
\* fetched and the decision IsUpdateAllowed takes on them.
C18_DryRunChangesNothing ==
  dryRun =>
    /\ calls = {}
    /\ lastUpdates = EmptyMap
    /\ \A u \in DOMAIN appStatuses :
         /\ appStatuses[u].LastUpdate = NoTime
         /\ appStatuses[u].UpdateNeeded =
              IsUpdateAllowed(appStatuses[u].CurrentTag, appStatuses[u].LatestTag,
                              EffectivePolicy(AppOf(u)), AppOf(u).Pin).allowed

\* a dry run has checked application "b" with the patch release 1.0.1
\* waiting: the update is recorded as needed and nothing was sent
C18_Witness ==
  /\ dryRun
  /\ "b" \in DOMAIN appStatuses
  /\ appStatuses["b"].CurrentTag = Ver(1, 0, 0)
  /\ appStatuses["b"].LatestTag = Ver(1, 0, 1)
  /\ appStatuses["b"].UpdateNeeded
  /\ calls = {}
  /\ lastUpdates = EmptyMap

\* C19: an iteration, whatever fails in it, never ends the cycle early: the
\* loop goes on to the next application of the same list (at once or after
\* the delay) and returns to idle only after the last one; from idle the
\* next cycle can start.
C19_FailureDoesNotAbortCycle ==
  [][ /\ pc = "checking" =>
           /\ apps' = apps
           /\ \/ idx < Len(apps) /\ pc' = "checking" /\ idx' = idx + 1
              \/ idx < Len(apps) /\ pc' = "sleeping" /\ idx' = idx
              \/ idx = Len(apps) /\ pc' = "idle"
      /\ pc = "sleeping" => apps' = apps /\ pc' = "checking" /\ idx' = idx + 1
      /\ pc = "idle" => ENABLED StartCycle ]_vars

\* the cycle that sent a failing UpdateApplication for "a" (nothing changed
\* at the controller, no cooldown recorded) has checked "b" and is over
C19_Witness ==
  /\ pc = "idle"
  /\ "a" \in DOMAIN cycleUpdates
  /\ "a" \notin DOMAIN lastUpdates
  /\ "a" \in DOMAIN coolify
  /\ coolify["a"].DockerImage = BuildImageReference(ImageA, Ver(1, 0, 0))
  /\ "b" \in DOMAIN appStatuses
  /\ appStatuses["b"].LastCheck = cycleUpdates["a"]

\* C20: an application whose update to a tag was requested and never
\* recorded as done has no cooldown entry, and a check that still finds that
\* tag to be the latest does not drop the update: it is recorded as needed
\* (and requested again) until it succeeds.
C20_FailedUpdateRetried ==
  ~dryRun =>
    \A u \in DOMAIN appStatuses :
      ( /\ u \notin DOMAIN lastUpdates
        /\ \E c \in UpdateCalls :
             c.uuid = u /\ ExtractImageAndTag(c.image).tag = appStatuses[u].LatestTag )
      => appStatuses[u].UpdateNeeded

\* C21: an application the controller reports as not found keeps its status
\* entry and its cooldown entry exactly as they were while the cycle goes on
\* to the next application, and no step of the watcher ever removes an entry
\* from either map.
C21_NotFoundLeavesEntries ==
  [][ /\ DOMAIN appStatuses \subseteq DOMAIN appStatuses'
      /\ DOMAIN lastUpdates \subseteq DOMAIN lastUpdates'
      /\ (pc = "checking" /\ apps[idx].UUID \notin DOMAIN coolify) =>
            /\ appStatuses' = appStatuses
            /\ lastUpdates' = lastUpdates
            /\ apps' = apps
            /\ IF idx < Len(apps) THEN pc' = "checking" /\ idx' = idx + 1
               ELSE pc' = "idle" ]_vars

\* application "a", updated in an earlier cycle and deleted at the controller
\* since, was found missing by the current cycle, which has gone on to "b";
\* both entries of "a" are still there
C21_Witness ==
  /\ "a" \notin DOMAIN coolify
  /\ "a" \in DOMAIN appStatuses
  /\ "a" \in DOMAIN lastUpdates
  /\ pc = "checking"
  /\ idx = 2
  /\ apps[1].UUID = "a"
  /\ appStatuses["a"].LastCheck < lastCheck
  /\ appStatuses["a"].LastUpdate = lastUpdates["a"]

\* C33: when a check cycle ends, the last-cycle timestamp is that cycle's
\* and every application of the cycle has a status entry written by that
\* cycle (its last-check time is not before the cycle's start), whatever the
\* outcome of its check.
C33_StatusRefreshedEveryCycle ==
  [][ (pc = "checking" /\ pc' = "idle") =>
        /\ lastCheck' # NoTime
        /\ \A k \in 1..Len(apps) :
             /\ apps[k].UUID \in DOMAIN appStatuses'
             /\ appStatuses'[apps[k].UUID].LastCheck >= lastCheck' ]_vars

\* C38: when an application has a recorded update, the controller reports
\* for it a tag T that the watcher requested and restarted it for, and the
\* registry still selects T, its check sends no request and records no
\* update: the decision on (T, T) is a denial, so the cycles have reached a
\* fixed point.
C38_FixedPoint ==
  [][ ( /\ pc = "checking"
        /\ apps[idx].UUID \in DOMAIN coolify
        /\ apps[idx].UUID \in DOMAIN lastUpdates
        /\ LET app == apps[idx]
               T   == ExtractImageAndTag(coolify[app.UUID].DockerImage).tag
           IN  /\ UpdateCall(app.UUID, BuildImageReference(app.Image, T)) \in calls
               /\ RestartCall(app.UUID) \in calls
               /\ GetLatestTag(registry[app.Image],
                               config.Defaults.ExcludePatterns) = TagOK(T) )
      => /\ calls' = calls
         /\ cycleUpdates' = cycleUpdates
         /\ coolify' = coolify
         /\ lastUpdates' = lastUpdates
         /\ appStatuses' # appStatuses =>
              /\ ~appStatuses'[apps[idx].UUID].UpdateNeeded
              /\ appStatuses'[apps[idx].UUID].CurrentTag =
                   appStatuses'[apps[idx].UUID].LatestTag ]_vars

\* "b" was updated to 1.0.1, its cooldown has passed, and a later cycle has
\* evaluated it again with the registry unchanged: current and latest tag
\* are both 1.0.1, no update is needed and the cycle sent no request for it
C38_Witness ==
  /\ "b" \in DOMAIN lastUpdates
  /\ "b" \in DOMAIN appStatuses
  /\ now - lastUpdates["b"] >= config.Defaults.Cooldown
  /\ appStatuses["b"].LastCheck > lastUpdates["b"]
  /\ appStatuses["b"].CurrentTag = Ver(1, 0, 1)
  /\ appStatuses["b"].LatestTag = Ver(1, 0, 1)
  /\ ~appStatuses["b"].UpdateNeeded
  /\ "b" \notin DOMAIN cycleUpdates
  /\ coolify["b"].DockerImage = BuildImageReference(ImageB, Ver(1, 0, 1))
  /\ pc = "idle"

\* C39: a status entry that carries a last-update time keeps one, never an
\* earlier one, through every later step: a check that performs no update
\* does not erase the recorded update time.
C39_LastUpdateKept ==
  [][ \A u \in DOMAIN appStatuses :
        appStatuses[u].LastUpdate # NoTime =>
          /\ u \in DOMAIN appStatuses'
          /\ appStatuses'[u].LastUpdate # NoTime
          /\ appStatuses'[u].LastUpdate >= appStatuses[u].LastUpdate ]_vars

\* C40: the check of an application leaves the status entry and the
\* cooldown entry of every other application as they were, present or
\* absent, whatever the outcome of the check.
C40_OtherEntriesUnchanged ==
  [][ pc = "checking" =>
        \A u \in (DOMAIN appStatuses \cup DOMAIN appStatuses'
                     \cup DOMAIN lastUpdates \cup DOMAIN lastUpdates') \ { apps[idx].UUID } :
          /\ u \in DOMAIN appStatuses <=> u \in DOMAIN appStatuses'
          /\ u \in DOMAIN appStatuses => appStatuses'[u] = appStatuses[u]
          /\ u \in DOMAIN lastUpdates <=> u \in DOMAIN lastUpdates'
          /\ u \in DOMAIN lastUpdates => lastUpdates'[u] = lastUpdates[u] ]_vars

\* "a" was updated at time 0 and "b", after the delay, at time 1; a later
\* cycle has found "a" denied and stored its new status: the entries of "b"
\* are still those of its update
C40_Witness ==
  /\ "a" \in DOMAIN lastUpdates
  /\ "b" \in DOMAIN lastUpdates
  /\ lastUpdates["a"] < lastUpdates["b"]
  /\ "a" \in DOMAIN appStatuses
  /\ "b" \in DOMAIN appStatuses
  /\ appStatuses["a"].LastCheck > appStatuses["b"].LastCheck
  /\ appStatuses["a"].LastUpdate = NoTime
  /\ appStatuses["b"].LastUpdate = lastUpdates["b"]
  /\ pc = "sleeping"
  /\ idx = 1

\* Image references the controller reports for "a" and "b" at start: with a
\* version tag, with the tag "latest", and without a tag.
DeployedRefsA ==
  { BuildImageReference(ImageA, Ver(1, 0, 0)),
    BuildImageReference(ImageA, << "l", "a", "t", "e", "s", "t" >>),
    ImageA }
DeployedRefsB == { BuildImageReference(ImageB, Ver(1, 0, 0)), ImageB }

\* A watcher with the two applications configured or left to auto-discovery,
\* each with a patch release waiting in its registry.
InitDiscover ==
  /\ NewWatcher
  /\ \E list \in { << >>, << AppConfig("a", ImageA, AutoAll, << >>),
                              AppConfig("b", ImageB, "", << >>) >> } :
       config = [ Apps |-> list,
                  Defaults |-> [ Policy |-> AutoPatch, Cooldown |-> Cooldown,
                                 ExcludePatterns |-> ExcludeDefaults ] ]
  /\ dryRun = FALSE
  /\ \E refA \in DeployedRefsA, refB \in DeployedRefsB :
       coolify = [ u \in { "a", "b" } |->
                     IF u = "a" THEN CoolifyApp("a", refA) ELSE CoolifyApp("b", refB) ]
  /\ registry = [ img \in { ImageA, ImageB } |-> << Ver(1, 0, 0), Ver(1, 0, 1) >> ]

\* The watcher's cycles with the registry and the controller's application
\* list left as they are.
NextDiscover == StartCycle \/ CheckAndUpdateApp \/ Sleep \/ Wait

SpecDiscover == InitDiscover /\ [][NextDiscover]_vars

\* C34: a cycle that enters its loop runs over the configured list when
\* there is one, and otherwise over the controller's applications, in the
\* controller's order, without those whose reference ends in ":latest" or
\* has no tag after its last slash; with at least one application left the
\* cycle can enter the loop (the exclusion is no error), and an application
\* excluded by discovery has no request sent for it, no status entry and no
\* cooldown entry.
C34_ApplicationSet ==
  [][ LET Latest(ref) ==
            LET slashes == { i \in 1..Len(ref) : ref[i] = "/" }
                from    == IF slashes = {} THEN 0 ELSE SetMax(slashes)
                colons  == { i \in (from + 1)..Len(ref) : ref[i] = ":" }
            IN  \/ colons = {}
                \/ SubSeq(ref, SetMax(colons) + 1, Len(ref)) = << "l", "a", "t", "e", "s", "t" >>
          kept == SelectSeq(UUIDs, LAMBDA u :
                    u \in DOMAIN coolify /\ ~Latest(coolify[u].DockerImage))
          excluded == { u \in DOMAIN coolify : Latest(coolify[u].DockerImage) }
      IN  /\ (pc = "idle" /\ pc' = "checking" /\ Len(config.Apps) > 0) =>
                apps' = config.Apps
          /\ (pc = "idle" /\ pc' = "checking" /\ Len(config.Apps) = 0) =>
                /\ Len(apps') = Len(kept)
                /\ \A k \in 1..Len(kept) :
                     apps'[k] = [ Name |-> kept[k], UUID |-> kept[k],
                                  Image |-> IF kept[k] = "a" THEN ImageA ELSE ImageB,
                                  Policy |-> "", Pin |-> << >> ]
          /\ (pc = "idle" /\ Len(config.Apps) = 0 /\ Len(kept) > 0) =>
                ENABLED (StartCycle /\ pc' = "checking")
          /\ Len(config.Apps) = 0 =>
                \A u \in excluded :
                  /\ \A c \in calls' : c.uuid # u
                  /\ u \notin DOMAIN appStatuses'
                  /\ u \notin DOMAIN lastUpdates'
                  /\ \A k \in 1..Len(apps') : apps'[k].UUID # u ]_vars

\* auto-discovery has left out "a", deployed without a tag, and the cycle
\* has updated "b", deployed from a registry with a port, to 1.0.1
C34_Witness ==
  /\ Len(config.Apps) = 0
  /\ "a" \in DOMAIN coolify
  /\ coolify["a"].DockerImage = ImageA
  /\ Len(apps) = 1
  /\ apps[1].UUID = "b"
  /\ apps[1].Image = ImageB
  /\ RestartCall("b") \in calls
  /\ "b" \in DOMAIN lastUpdates
  /\ "a" \notin DOMAIN appStatuses
  /\ coolify["b"].DockerImage = BuildImageReference(ImageB, Ver(1, 0, 1))

(***************************************************************************)
(* internal/server and Watcher.GetStatus                                   *)
(*                                                                         *)
(* The HTTP server runs statusHandler in a goroutine of its own while the  *)
(* worker runs its cycles.  GetStatus ranges over w.appStatuses and then   *)
(* reads w.lastCheck; neither it nor the worker takes a lock.  One request *)
(* is followed from the call to the response.                              *)
(***************************************************************************)

\* The watcher of Init with application "a" under auto-all, outside dry-run.
InitStatus ==
  /\ Init
  /\ ~dryRun
  /\ config.Apps[1].Policy = AutoAll
  /\ config.Apps[1].Pin = << >>
  /\ config.Defaults.Policy = AutoPatch

\* statusHandler calls GetStatus, whose loop ranges over the map as it is.
GetStatusCall ==
  /\ handler.at = "idle"
  /\ handler' = [ handler EXCEPT !.at = "reading", !.seen = appStatuses ]
  /\ UNCHANGED << pc, funcVars, watcherVars, main >>

\* What a range over the map can yield when the worker has stored entries
\* since the loop began: for each key the entry of then or the entry of now.
Mixed(then, current) ==
  { m \in [ DOMAIN current -> { then[u] : u \in DOMAIN then }
                               \cup { current[u] : u \in DOMAIN current } ] :
      \A u \in DOMAIN current :
        m[u] = current[u] \/ (u \in DOMAIN then /\ m[u] = then[u]) }
    \cup { then }

\* GetStatus reads lastCheck and returns.  A map written during the range is
\* a data race: the loop yields some mix of the entries, or the runtime
\* stops the process ("concurrent map iteration and map write").
GetStatusReturn ==
  /\ handler.at = "reading"
  /\ IF handler.seen = appStatuses
       THEN handler' = [ handler EXCEPT !.at = "done",
                           !.response = [ LastCheck |-> lastCheck,
                                          Apps |-> appStatuses ] ]
       ELSE \/ handler' = [ handler EXCEPT !.at = "fatal" ]
            \/ \E m \in Mixed(handler.seen, appStatuses) :
                 handler' = [ handler EXCEPT !.at = "done",
                                !.response = [ LastCheck |-> lastCheck,
                                               Apps |-> m ] ]
  /\ UNCHANGED << pc, funcVars, watcherVars, main >>

\* The worker and the status handler side by side, while the process lives.
Alive == handler.at # "fatal"

NextStatus ==
  \/ Alive /\ StartCycle
  \/ Alive /\ CheckAndUpdateApp
  \/ Alive /\ Sleep
  \/ Alive /\ Wait
  \/ Alive /\ Publish
  \/ Alive /\ Delete
  \/ GetStatusCall
  \/ GetStatusReturn

SpecStatus == InitStatus /\ [][NextStatus]_vars

\* C24: GetStatus never reads the status map or the last-check time while
\* the worker writes them, its response is the per-application state and
\* last-check time of one moment, and the worker is never kept waiting by
\* a request.
C24_StatusReadsSynchronised ==
  [][ /\ handler.at = "reading" =>
           appStatuses' = appStatuses /\ lastCheck' = lastCheck
      /\ handler.at = "reading" /\ handler'.at # "reading" =>
           /\ handler'.at = "done"
           /\ handler'.response.Apps = handler.seen
           /\ handler'.response.LastCheck = lastCheck
      /\ handler.at = "reading" /\ pc = "checking" => ENABLED CheckAndUpdateApp
    ]_vars

(***************************************************************************)
(* internal/watcher: cron scheduling                                       *)
(*                                                                         *)
(* startWithCron registers checkApplications as a cron job; the scheduler  *)
(* runs every firing of the job in a goroutine of its own, so a firing     *)
(* does not wait for the previous one to return.  pc maps each firing to   *)
(* its position in checkAndUpdateApp, input to its local variables.        *)
(***************************************************************************)

\* The number of firings of the cron job.
MaxJobs == 2

\* The shortest time between two firings of a five-field cron schedule:
\* one minute, in clock units.
CronPeriod == 2

Jobs == 1..MaxJobs

NoLocals == [ currentTag |-> << >>, latestTag |-> << >>, checked |-> NoTime ]

\* One configured application, "a", with a patch release waiting.
InitCron ==
  /\ pc = [ j \in Jobs |-> "scheduled" ]
  /\ input = [ j \in Jobs |-> NoLocals ]
  /\ output = NoDecision
  /\ prev = NoCall
  /\ \E policy \in { AutoPatch, AutoAll } :
       config = [ Apps |-> << AppConfig("a", ImageA, policy, << >>) >>,
                  Defaults |-> [ Policy |-> AutoPatch, Cooldown |-> Cooldown,
                                 ExcludePatterns |-> ExcludeDefaults ] ]
  /\ dryRun \in BOOLEAN
  /\ appStatuses = EmptyMap
  /\ lastUpdates = EmptyMap
  /\ lastCheck = NoTime
  /\ apps = config.Apps
  /\ idx = 0
  /\ now = 0
  /\ coolify = [ u \in { "a" } |-> CoolifyApp("a", BuildImageReference(ImageA, Ver(1, 0, 0))) ]
  /\ registry = [ img \in { ImageA } |-> << Ver(1, 0, 0), Ver(1, 0, 1) >> ]
  /\ calls = {}
  /\ cycleUpdates = EmptyMap
  /\ main = NoMain
  /\ handler = NoHandler

\* The job fires: checkApplications sets lastCheck and enters the loop with
\* the configured applications.
CronFire(j) ==
  /\ pc[j] = "scheduled"
  /\ j > 1 => pc[j - 1] # "scheduled"
  /\ lastCheck = NoTime \/ now - lastCheck >= CronPeriod
  /\ lastCheck' = now
  /\ pc' = [ pc EXCEPT ![j] = "GetApplication" ]
  /\ UNCHANGED << funcVars, procVars, config, dryRun, appStatuses, lastUpdates, apps, idx,
                  now, coolify, registry, calls, cycleUpdates >>

\* checkAndUpdateApp up to the cooldown check.
CronGetApplication(j) ==
  /\ pc[j] = "GetApplication"
  /\ \E ok \in BOOLEAN :
       IF ~ok \/ InCooldown(apps[1])
         THEN pc' = [ pc EXCEPT ![j] = "returned" ] /\ UNCHANGED input
         ELSE /\ pc' = [ pc EXCEPT ![j] = "GetLatestTag" ]
              /\ input' = [ input EXCEPT ![j].currentTag =
                              ExtractImageAndTag(coolify[apps[1].UUID].DockerImage).tag ]
  /\ UNCHANGED << output, prev, watcherVars, procVars >>

\* checkAndUpdateApp from the tag listing to the decision.
CronGetLatestTag(j) ==
  /\ pc[j] = "GetLatestTag"
  /\ LET app      == apps[1]
         latest   == GetLatestTag(registry[app.Image], config.Defaults.ExcludePatterns)
         decision == IsUpdateAllowed(input[j].currentTag, latest.tag,
                                     GetUpdatePolicy(app, config.Defaults), app.Pin)
         status   == [ Name |-> app.Name, UUID |-> app.UUID, Image |-> app.Image,
                       CurrentTag |-> input[j].currentTag, LatestTag |-> latest.tag,
                       Policy |-> GetUpdatePolicy(app, config.Defaults),
                       UpdateNeeded |-> decision.allowed,
                       LastCheck |-> now, LastUpdate |-> NoTime ]
     IN  \E ok \in BOOLEAN :
           IF ~ok \/ latest.err # ""
             THEN /\ pc' = [ pc EXCEPT ![j] = "returned" ]
                  /\ UNCHANGED << input, appStatuses >>
           ELSE IF EvaluationOnly(decision)
             THEN /\ pc' = [ pc EXCEPT ![j] = "returned" ]
                  /\ appStatuses' = (app.UUID :> status) @@ appStatuses
                  /\ UNCHANGED input
           ELSE /\ pc' = [ pc EXCEPT ![j] = "UpdateApplication" ]
                /\ input' = [ input EXCEPT ![j].latestTag = latest.tag,
                                             ![j].checked = now ]
                /\ UNCHANGED appStatuses
  /\ UNCHANGED << output, prev, procVars, config, dryRun, lastUpdates, lastCheck, apps, idx,
                  now, coolify, registry, calls, cycleUpdates >>

\* performUpdate: the UpdateApplication request.
CronUpdateApplication(j) ==
  /\ pc[j] = "UpdateApplication"
  /\ LET app      == apps[1]
         newImage == BuildImageReference(app.Image, input[j].latestTag)
     IN  /\ calls' = calls \cup { UpdateCall(app.UUID, newImage) }
         /\ \E ok \in BOOLEAN :
              IF ok
                THEN /\ coolify' = [ coolify EXCEPT ![app.UUID].DockerImage = newImage ]
                     /\ pc' = [ pc EXCEPT ![j] = "RestartApplication" ]
                ELSE /\ pc' = [ pc EXCEPT ![j] = "returned" ]
                     /\ UNCHANGED coolify
  /\ UNCHANGED << funcVars, procVars, config, dryRun, appStatuses, lastUpdates, lastCheck,
                  apps, idx, now, registry, cycleUpdates >>

\* performUpdate: the RestartApplication request, then the record of the
\* update in lastUpdates and in the status.
CronRestartApplication(j) ==
  /\ pc[j] = "RestartApplication"
  /\ LET app    == apps[1]
         status == [ Name |-> app.Name, UUID |-> app.UUID, Image |-> app.Image,
                     CurrentTag |-> input[j].currentTag,
                     LatestTag |-> input[j].latestTag,
                     Policy |-> GetUpdatePolicy(app, config.Defaults),
                     UpdateNeeded |-> TRUE,
                     LastCheck |-> input[j].checked, LastUpdate |-> now ]
     IN  /\ calls' = calls \cup { RestartCall(app.UUID) }
         /\ pc' = [ pc EXCEPT ![j] = "returned" ]
         /\ \E ok \in BOOLEAN :
              IF ok
                THEN /\ lastUpdates' = (app.UUID :> now) @@ lastUpdates
                     /\ appStatuses' = (app.UUID :> status) @@ appStatuses
                ELSE UNCHANGED << lastUpdates, appStatuses >>
  /\ UNCHANGED << funcVars, procVars, config, dryRun, lastCheck, apps, idx, now, coolify,
                  registry, cycleUpdates >>

\* Time passes, between the firings and during the network calls.
Tick ==
  /\ now < MaxTime
  /\ now' = now + 1
  /\ UNCHANGED << pc, funcVars, procVars, config, dryRun, appStatuses, lastUpdates,
                  lastCheck, apps, idx, coolify, registry, calls, cycleUpdates >>

NextCron ==
  \/ \E j \in Jobs :
       \/ CronFire(j)
       \/ CronGetApplication(j)
       \/ CronGetLatestTag(j)
       \/ CronUpdateApplication(j)
       \/ CronRestartApplication(j)
  \/ Tick

SpecCron == InitCron /\ [][NextCron]_vars

\* The firings of the job that are inside checkApplications.
Running == { j \in Jobs : pc[j] \notin { "scheduled", "returned" } }

\* C23: at most one check cycle is executing at any time; a firing that
\* comes while a cycle is still running does not start a second one.
C23_OneCycleAtATime == Cardinality(Running) <= 1

\* C17: an update is applied to an application (UpdateApplication succeeds)
\* only when its last recorded update is at least the cooldown ago, so any
\* two updates of one application are at least the cooldown apart.
C17_UpdatesCooldownApart ==
  [][ \A j \in Jobs :
        pc[j] = "UpdateApplication" /\ pc'[j] = "RestartApplication" =>
          ~InCooldown(apps[1]) ]_vars

\* The watcher's runs together with the tag selections on every tag list.
InitSelectAll == Init \/ InitSelect

NextSelectAll == Next \/ NextSelect

SpecSelectAll == InitSelectAll /\ [][NextSelectAll]_vars

\* Every tag of the listing contains some exclude pattern.
AllExcluded(listing, excludePatterns) ==
  \A i \in 1..Len(listing) :
    \E k \in 1..Len(excludePatterns) : Contains(listing[i], excludePatterns[k])

\* C12: GetLatestTag returns the no-tags error for an empty listing and the
\* no-stable-tags error for a listing whose tags are all excluded, with no
\* tag (FindLatestVersion: the no-tags error on an empty list); an
\* application's check that gets such a listing records no decision, sends
\* no request, and is a failed iteration: the loop goes on to the next
\* application without the delay, and the application stays configured.
C12_SelectionFailure ==
  [][ /\ ( pc = "call" /\ pc' = "return" /\ output'.fn = "GetLatestTag" ) =>
          /\ input.tags = << >> =>
               output'.result = [ err |-> "no tags found for image", tag |-> << >> ]
          /\ input.tags # << >> /\ AllExcluded(input.tags, input.excludePatterns) =>
               output'.result = [ err |-> "no stable tags found after filtering",
                                  tag |-> << >> ]
          /\ ~AllExcluded(input.tags, input.excludePatterns) =>
               output'.result.err = ""
      /\ ( /\ pc = "call" /\ pc' = "return" /\ output'.fn = "FindLatestVersion"
           /\ output'.filtered = << >> ) =>
          output'.result = [ err |-> "no tags found", tag |-> << >> ]
      /\ ( /\ pc = "checking"
           /\ ~InCooldown(apps[idx])
           /\ AllExcluded(registry[apps[idx].Image], config.Defaults.ExcludePatterns) ) =>
          /\ UNCHANGED << appStatuses, lastUpdates, coolify, calls, cycleUpdates,
                          apps, config >>
          /\ IF idx < Len(apps) THEN pc' = "checking" /\ idx' = idx + 1
             ELSE pc' = "idle" ]_vars

\* the check of application "a" has run on a listing that holds only the
\* excluded tag 1.0.1-a: nothing is recorded for "a" and the loop stands at
\* application "b" without having slept
C12_Witness ==
  /\ pc = "checking" /\ idx = 2 /\ now = lastCheck
  /\ registry[ImageA] = << Ver(1, 0, 1) \o << "-", "a" >> >>
  /\ "a" \notin DOMAIN appStatuses
  /\ \A c \in calls : c.uuid # "a"

(***************************************************************************)
(* cmd/patrol: func main, Watcher.Start and shutdown                       *)
(*                                                                         *)
(* main starts the watcher in a goroutine (worker 0, which runs the        *)
(* initial cycle and, in interval mode, every later one) and waits for a   *)
(* signal or for the watcher to return.  In cron mode the scheduler runs   *)
(* each firing in a goroutine of its own (workers 1..MaxFirings).  pc maps *)
(* each worker to its position, idx to its loop index, input to its local  *)
(* variables.  Every HTTP request carries the context ctx.                 *)
(***************************************************************************)

\* The number of firings of the cron job.
MaxFirings == 1

\* The number of check cycles of a run.
MaxCycles == 2

\* The 10 s main grants the HTTP server to shut down, the only timeout of
\* the shutdown sequence, in clock units (30 s).
ShutdownTimeout == 0

Firings == 1..MaxFirings
Workers == 0..MaxFirings

\* The positions inside an application's iteration.
InIteration == { "GetApplication", "GetLatestTag", "UpdateApplication", "RestartApplication" }

\* main, the schedule/interval override: --schedule replaces the schedule and
\* clears the interval, otherwise --interval replaces the interval and clears
\* the schedule.
Override(defaults, schedule, interval) ==
  IF schedule # ""
    THEN [ defaults EXCEPT !.Schedule = schedule, !.Interval = "" ]
  ELSE IF interval # ""
    THEN [ defaults EXCEPT !.Interval = interval, !.Schedule = "" ]
  ELSE defaults

\* Scheduler with the interval looked at first.
SchedulerIntervalFirst(defaults) ==
  IF defaults.Interval # "" THEN "ticker" ELSE "cron"

\* Start: the cron scheduler if a schedule is configured, otherwise the
\* interval ticker.
Scheduler(defaults) ==
  IF defaults.Schedule # "" THEN "cron" ELSE "ticker"

\* AfterInitialCheck with the error of the initial check returned outside
\* run-once mode too.
AfterInitialCheckReturnsError(runOnce, err) ==
  IF runOnce \/ err # "nil" THEN "return" ELSE "schedule"

\* AfterInitialCheck with the scheduler entered in run-once mode too.
AfterInitialCheckIgnoresOnce(runOnce, err) == "schedule"

\* Start after the initial check: in run-once mode it returns the cycle's
\* error (or nil), otherwise it goes on to the scheduler.
AfterInitialCheck(runOnce, err) ==
  IF runOnce THEN "return" ELSE "schedule"

\* The state after main has started the HTTP server (unless running once)
\* and the watcher goroutine: two applications with a patch release waiting,
\* from the configuration or left to auto-discovery.
InitMain ==
  /\ pc = [ w \in Workers |-> IF w = 0 THEN "Start" ELSE "scheduled" ]
  /\ idx = [ w \in Workers |-> 0 ]
  /\ input = [ w \in Workers |-> NoLocals ]
  /\ output = NoDecision
  /\ prev = NoCall
  /\ \E loaded \in { "", "*/30 * * * *" }, schedule \in { "", "0 * * * *" },
        interval \in { "", "5m" }, discover \in BOOLEAN :
       config = [ Apps |-> IF discover THEN << >>
                           ELSE << AppConfig("a", ImageA, "", << >>),
                                   AppConfig("b", ImageB, "", << >>) >>,
                  Defaults |-> Override([ Policy |-> AutoPatch, Cooldown |-> Cooldown,
                                          ExcludePatterns |-> ExcludeDefaults,
                                          Schedule |-> loaded, Interval |-> "15m" ],
                                        schedule, interval) ]
  /\ dryRun = FALSE
  /\ appStatuses = EmptyMap
  /\ lastUpdates = EmptyMap
  /\ lastCheck = NoTime
  /\ apps = << >>
  /\ now = 0
  /\ coolify = [ u \in { "a", "b" } |->
                   IF u = "a" THEN CoolifyApp("a", BuildImageReference(ImageA, Ver(1, 0, 0)))
                   ELSE CoolifyApp("b", BuildImageReference(ImageB, Ver(1, 0, 0))) ]
  /\ registry = [ img \in { ImageA, ImageB } |-> << Ver(1, 0, 0), Ver(1, 0, 1) >> ]
  /\ calls = {}
  /\ cycleUpdates = EmptyMap
  /\ handler = NoHandler
  /\ \E once \in BOOLEAN :
       main = [ at |-> "select", exit |-> 0, once |-> once, ctx |-> "live",
                sigCh |-> FALSE, signalAt |-> NoTime,
                httpServer |-> IF once THEN "nil" ELSE "running",
                watcherDone |-> "", ticker |-> "none", cron |-> "none",
                cycles |-> 0 ]

\* Variables no step of the process changes.
fixedVars == << output, prev, config, dryRun, registry, cycleUpdates, handler >>

\* The process, and every goroutine with it, runs until main returns.
ProcessAlive == main.at # "exited"

\* A request made with a cancelled context returns an error.
Cancelled == main.ctx = "canceled"

\* checkApplications returns err (or nil) to its caller.  m is main with the
\* changes of the step so far.
CycleEnd(w, err, m) ==
  /\ idx' = [ idx EXCEPT ![w] = 0 ]
  /\ IF w # 0
       THEN pc' = [ pc EXCEPT ![w] = "returned" ] /\ main' = m
     ELSE IF m.ticker # "none"
       THEN pc' = [ pc EXCEPT ![w] = "select" ] /\ main' = m
     ELSE IF AfterInitialCheck(m.once, err) = "return"
       THEN /\ pc' = [ pc EXCEPT ![w] = "returned" ]
            /\ main' = [ m EXCEPT !.watcherDone = err ]
     ELSE pc' = [ pc EXCEPT ![w] = "schedule" ] /\ main' = m

\* checkApplications up to the loop, entered by worker w.
BeginCycle(w, m) ==
  /\ lastCheck' = now
  /\ IF Len(config.Apps) > 0
       THEN /\ apps' = config.Apps
            /\ pc' = [ pc EXCEPT ![w] = "GetApplication" ]
            /\ idx' = [ idx EXCEPT ![w] = 1 ]
            /\ main' = m
     ELSE \E ok \in BOOLEAN :
            IF ok /\ ~Cancelled
              THEN /\ apps' = Discovered
                   /\ IF Len(Discovered) = 0 THEN CycleEnd(w, "nil", m)
                      ELSE /\ pc' = [ pc EXCEPT ![w] = "GetApplication" ]
                           /\ idx' = [ idx EXCEPT ![w] = 1 ]
                           /\ main' = m
              ELSE apps' = apps /\ CycleEnd(w, "error", m)

\* The loop of checkApplications after worker w's iteration.
IterationDone(w, failed) ==
  IF idx[w] >= Len(apps) THEN CycleEnd(w, "nil", main)
  ELSE /\ main' = main
       /\ IF failed
            THEN /\ pc' = [ pc EXCEPT ![w] = "GetApplication" ]
                 /\ idx' = [ idx EXCEPT ![w] = @ + 1 ]
            ELSE /\ pc' = [ pc EXCEPT ![w] = "sleep" ]
                 /\ idx' = idx

Goto(w, position) ==
  /\ pc' = [ pc EXCEPT ![w] = position ]
  /\ UNCHANGED << idx, main >>

\* Start: the initial check.
InitialCheck ==
  /\ ProcessAlive
  /\ pc[0] = "Start"
  /\ BeginCycle(0, [ main EXCEPT !.cycles = @ + 1 ])
  /\ UNCHANGED << input, fixedVars, appStatuses, lastUpdates, now, coolify, calls >>

\* Start after the initial check outside run-once mode: startWithCron up to
\* c.Start(), or startWithInterval up to time.NewTicker.
StartScheduler ==
  /\ ProcessAlive
  /\ pc[0] = "schedule"
  /\ IF Scheduler(config.Defaults) = "cron"
       THEN /\ main' = [ main EXCEPT !.cron = "started" ]
            /\ pc' = [ pc EXCEPT ![0] = "ctx.Done" ]
       ELSE /\ main' = [ main EXCEPT !.ticker = "waiting" ]
            /\ pc' = [ pc EXCEPT ![0] = "select" ]
  /\ UNCHANGED << input, fixedVars, appStatuses, lastUpdates, lastCheck, apps, idx,
                  now, coolify, calls >>

\* The ticker sends a tick; its channel holds one.
TickerTick ==
  /\ ProcessAlive
  /\ main.ticker = "waiting"
  /\ main' = [ main EXCEPT !.ticker = "tick" ]
  /\ UNCHANGED << pc, input, fixedVars, appStatuses, lastUpdates, lastCheck, apps,
                  idx, now, coolify, calls >>

\* startWithInterval, select: the case <-ticker.C.  select takes any case
\* that is ready.
SelectTick ==
  /\ ProcessAlive
  /\ pc[0] = "select"
  /\ main.ticker = "tick"
  /\ main.cycles < MaxCycles
  /\ BeginCycle(0, [ main EXCEPT !.ticker = "waiting", !.cycles = @ + 1 ])
  /\ UNCHANGED << input, fixedVars, appStatuses, lastUpdates, now, coolify, calls >>

\* startWithInterval, select: the case <-ctx.Done(); the ticker is stopped
\* and ctx.Err() goes to watcherDone.
SelectDone ==
  /\ ProcessAlive
  /\ pc[0] = "select"
  /\ Cancelled
  /\ pc' = [ pc EXCEPT ![0] = "returned" ]
  /\ main' = [ main EXCEPT !.ticker = "stopped", !.watcherDone = "canceled" ]
  /\ UNCHANGED << input, fixedVars, appStatuses, lastUpdates, lastCheck, apps, idx,
                  now, coolify, calls >>

\* startWithCron: <-ctx.Done() returns, the deferred c.Stop() runs and
\* ctx.Err() goes to watcherDone.  Jobs that are running are not waited for.
CronDone ==
  /\ ProcessAlive
  /\ pc[0] = "ctx.Done"
  /\ Cancelled
  /\ pc' = [ pc EXCEPT ![0] = "returned" ]
  /\ main' = [ main EXCEPT !.cron = "stopped", !.watcherDone = "canceled" ]
  /\ UNCHANGED << input, fixedVars, appStatuses, lastUpdates, lastCheck, apps, idx,
                  now, coolify, calls >>

\* The cron scheduler, started and not yet stopped, fires the job in a new
\* goroutine.
Fire(j) ==
  /\ ProcessAlive
  /\ main.cron = "started"
  /\ pc[j] = "scheduled"
  /\ j > 1 => pc[j - 1] # "scheduled" /\ now - lastCheck >= CronPeriod
  /\ main.cycles < MaxCycles
  /\ BeginCycle(j, [ main EXCEPT !.cycles = @ + 1 ])
  /\ UNCHANGED << input, fixedVars, appStatuses, lastUpdates, now, coolify, calls >>

\* checkAndUpdateApp up to the cooldown check.
GetApplication(w) ==
  /\ ProcessAlive
  /\ pc[w] = "GetApplication"
  /\ LET app == apps[idx[w]]
     IN  \E ok \in BOOLEAN :
           IF ~ok \/ Cancelled
             THEN IterationDone(w, TRUE) /\ UNCHANGED input
           ELSE IF InCooldown(app)
             THEN IterationDone(w, FALSE) /\ UNCHANGED input
           ELSE /\ Goto(w, "GetLatestTag")
                /\ input' = [ input EXCEPT ![w].currentTag =
                                ExtractImageAndTag(coolify[app.UUID].DockerImage).tag ]
  /\ UNCHANGED << fixedVars, appStatuses, lastUpdates, lastCheck, apps, now,
                  coolify, calls >>

\* checkAndUpdateApp from the tag listing to the decision.
GetLatestTagCall(w) ==
  /\ ProcessAlive
  /\ pc[w] = "GetLatestTag"
  /\ LET app      == apps[idx[w]]
         latest   == GetLatestTag(registry[app.Image], config.Defaults.ExcludePatterns)
         decision == IsUpdateAllowed(input[w].currentTag, latest.tag,
                                     GetUpdatePolicy(app, config.Defaults), app.Pin)
         status   == [ Name |-> app.Name, UUID |-> app.UUID, Image |-> app.Image,
                       CurrentTag |-> input[w].currentTag, LatestTag |-> latest.tag,
                       Policy |-> GetUpdatePolicy(app, config.Defaults),
                       UpdateNeeded |-> decision.allowed,
                       LastCheck |-> now, LastUpdate |-> NoTime ]
     IN  \E ok \in BOOLEAN :
           IF ~ok \/ Cancelled \/ latest.err # ""
             THEN IterationDone(w, TRUE) /\ UNCHANGED << input, appStatuses >>
           ELSE IF EvaluationOnly(decision)
             THEN /\ IterationDone(w, FALSE)
                  /\ appStatuses' = (app.UUID :> status) @@ appStatuses
                  /\ UNCHANGED input
           ELSE /\ Goto(w, "UpdateApplication")
                /\ input' = [ input EXCEPT ![w].latestTag = latest.tag,
                                             ![w].checked = now ]
                /\ UNCHANGED appStatuses
  /\ UNCHANGED << fixedVars, lastUpdates, lastCheck, apps, now, coolify, calls >>

\* performUpdate: the UpdateApplication request.  With the context cancelled
\* the client returns an error, whether the request was cut off before the
\* controller got it or after.
UpdateApplication(w) ==
  /\ ProcessAlive
  /\ pc[w] = "UpdateApplication"
  /\ LET app      == apps[idx[w]]
         newImage == BuildImageReference(app.Image, input[w].latestTag)
     IN  \E received \in BOOLEAN, ok \in BOOLEAN :
           /\ ~Cancelled => received
           /\ ok => received /\ ~Cancelled
           /\ calls' = IF received THEN calls \cup { UpdateCall(app.UUID, newImage) }
                       ELSE calls
           /\ coolify' = IF received /\ (ok \/ Cancelled)
                           THEN [ coolify EXCEPT ![app.UUID].DockerImage = newImage ]
                         ELSE coolify
           /\ IF ok THEN Goto(w, "RestartApplication") ELSE IterationDone(w, TRUE)
  /\ UNCHANGED << input, fixedVars, appStatuses, lastUpdates, lastCheck, apps, now >>

\* RestartApplication with the update recorded whether or not the restart
\* request succeeded.
RestartApplicationRecordsFailure(w) ==
  /\ ProcessAlive
  /\ pc[w] = "RestartApplication"
  /\ LET app    == apps[idx[w]]
         status == [ Name |-> app.Name, UUID |-> app.UUID, Image |-> app.Image,
                     CurrentTag |-> input[w].currentTag,
                     LatestTag |-> input[w].latestTag,
                     Policy |-> GetUpdatePolicy(app, config.Defaults),
                     UpdateNeeded |-> TRUE,
                     LastCheck |-> input[w].checked, LastUpdate |-> now ]
     IN  \E received \in BOOLEAN, ok \in BOOLEAN :
           /\ ~Cancelled => received
           /\ ok => received /\ ~Cancelled
           /\ calls' = IF received THEN calls \cup { RestartCall(app.UUID) } ELSE calls
           /\ lastUpdates' = (app.UUID :> now) @@ lastUpdates
           /\ appStatuses' = (app.UUID :> status) @@ appStatuses
           /\ IterationDone(w, ~ok)
  /\ UNCHANGED << input, fixedVars, lastCheck, apps, now, coolify >>

\* performUpdate: the RestartApplication request, then the record of the
\* update in lastUpdates and in the status.
RestartApplication(w) ==
  /\ ProcessAlive
  /\ pc[w] = "RestartApplication"
  /\ LET app    == apps[idx[w]]
         status == [ Name |-> app.Name, UUID |-> app.UUID, Image |-> app.Image,
                     CurrentTag |-> input[w].currentTag,
                     LatestTag |-> input[w].latestTag,
                     Policy |-> GetUpdatePolicy(app, config.Defaults),
                     UpdateNeeded |-> TRUE,
                     LastCheck |-> input[w].checked, LastUpdate |-> now ]
     IN  \E received \in BOOLEAN, ok \in BOOLEAN :
           /\ ~Cancelled => received
           /\ ok => received /\ ~Cancelled
           /\ calls' = IF received THEN calls \cup { RestartCall(app.UUID) } ELSE calls
           /\ IF ok
                THEN /\ lastUpdates' = (app.UUID :> now) @@ lastUpdates
                     /\ appStatuses' = (app.UUID :> status) @@ appStatuses
                     /\ IterationDone(w, FALSE)
                ELSE /\ UNCHANGED << lastUpdates, appStatuses >>
                     /\ IterationDone(w, TRUE)
  /\ UNCHANGED << input, fixedVars, lastCheck, apps, now, coolify >>

\* time.Sleep(updateDelay) between two iterations; it does not look at ctx.
SleepDelay(w) ==
  /\ ProcessAlive
  /\ pc[w] = "sleep"
  /\ now + UpdateDelay <= MaxTime
  /\ now' = now + UpdateDelay
  /\ pc' = [ pc EXCEPT ![w] = "GetApplication" ]
  /\ idx' = [ idx EXCEPT ![w] = @ + 1 ]
  /\ UNCHANGED << input, fixedVars, appStatuses, lastUpdates, lastCheck, apps,
                  coolify, calls, main >>

\* SIGINT or SIGTERM is delivered to sigCh.
Signal ==
  /\ ProcessAlive
  /\ ~main.sigCh
  /\ main.signalAt = NoTime
  /\ main' = [ main EXCEPT !.sigCh = TRUE ]
  /\ UNCHANGED << pc, input, fixedVars, appStatuses, lastUpdates, lastCheck, apps,
                  idx, now, coolify, calls >>

\* main, select: the case <-sigCh.  cancel(), the HTTP server is stopped,
\* and main goes on to wait for the watcher.
MainSignal ==
  /\ main.at = "select"
  /\ main.sigCh
  /\ main' = [ main EXCEPT !.at = "waiting", !.sigCh = FALSE, !.ctx = "canceled",
                            !.signalAt = now,
                            !.httpServer = IF @ = "nil" THEN @ ELSE "stopped" ]
  /\ UNCHANGED << pc, input, fixedVars, appStatuses, lastUpdates, lastCheck, apps,
                  idx, now, coolify, calls >>

\* main, <-watcherDone after a signal: main returns.
MainWait ==
  /\ main.at = "waiting"
  /\ main.watcherDone # ""
  /\ main' = [ main EXCEPT !.at = "exited", !.exit = 0 ]
  /\ UNCHANGED << pc, input, fixedVars, appStatuses, lastUpdates, lastCheck, apps,
                  idx, now, coolify, calls >>

\* main, select: the case err := <-watcherDone.  os.Exit(1) on an error other
\* than context.Canceled, otherwise the HTTP server is stopped and main
\* returns.
MainWatcherDone ==
  /\ main.at = "select"
  /\ main.watcherDone # ""
  /\ main' = IF main.watcherDone = "error"
               THEN [ main EXCEPT !.at = "exited", !.exit = 1 ]
             ELSE [ main EXCEPT !.at = "exited", !.exit = 0,
                                !.httpServer = IF @ = "nil" THEN @ ELSE "stopped" ]
  /\ UNCHANGED << pc, input, fixedVars, appStatuses, lastUpdates, lastCheck, apps,
                  idx, now, coolify, calls >>

\* The HTTP server fails: its goroutine calls cancel().
ServerFails ==
  /\ ProcessAlive
  /\ main.httpServer = "running"
  /\ main' = [ main EXCEPT !.httpServer = "failed", !.ctx = "canceled" ]
  /\ UNCHANGED << pc, input, fixedVars, appStatuses, lastUpdates, lastCheck, apps,
                  idx, now, coolify, calls >>

NextMain ==
  \/ InitialCheck
  \/ StartScheduler
  \/ TickerTick
  \/ SelectTick
  \/ SelectDone
  \/ CronDone
  \/ \E j \in Firings : Fire(j)
  \/ \E w \in Workers :
       \/ GetApplication(w)
       \/ GetLatestTagCall(w)
       \/ UpdateApplication(w)
       \/ RestartApplication(w)
       \/ SleepDelay(w)
  \/ Signal
  \/ MainSignal
  \/ MainWait
  \/ MainWatcherDone
  \/ ServerFails

SpecMain == InitMain /\ [][NextMain]_vars

C25_NoCycleAfterCancel ==
  [][ main.ctx = "canceled" /\ main.signalAt # NoTime =>
        main'.cycles = main.cycles ]_vars

\* C26: after a shutdown signal the requests of the application being
\* processed are still made (the restart that follows a successful update
\* reaches the controller), and main returns only when no worker is inside
\* an application's iteration.
C26_IterationFinishesBeforeExit ==
  [][ /\ \A w \in Workers :
           ( /\ main.signalAt # NoTime
             /\ pc[w] = "RestartApplication"
             /\ pc'[w] # "RestartApplication" )
           => RestartCall(apps[idx[w]].UUID) \in calls'
      /\ main'.signalAt # NoTime /\ main'.at = "exited" =>
           \A w \in Workers : pc'[w] \notin InIteration
    ]_vars

\* C27: after a shutdown signal main waits for the watcher no longer than
\* the shutdown timeout; a cycle that sleeps between two applications does
\* not hold the exit back beyond it.
C27_WaitBoundedByTimeout ==
  main.at = "waiting" => now - main.signalAt <= ShutdownTimeout

\* C30: in run-once mode no ticker, cron scheduler or HTTP server is ever
\* started and at most one cycle begins; when the process has exited,
\* exactly one cycle has run and Start has returned, and the exit status is
\* 1 only if that cycle returned an error.
C30_RunOnce ==
  main.once =>
    /\ main.ticker = "none"
    /\ main.cron = "none"
    /\ main.httpServer = "nil"
    /\ main.cycles <= 1
    /\ main.at = "exited" =>
         /\ main.cycles = 1
         /\ pc[0] = "returned"
         /\ \A w \in Firings : pc[w] = "scheduled"
         /\ main.exit = 1 => main.watcherDone = "error"

\* a run-once process whose only cycle failed to list the applications has
\* exited with status 1
C30_Witness ==
  /\ main.once
  /\ main.at = "exited"
  /\ main.exit = 1
  /\ main.cycles = 1
  /\ main.watcherDone = "error"
  /\ lastCheck = 0

\* C31: the iteration of an application whose recorded update is less than
\* the cooldown ago ends with the current-tag fetch: the worker does not go
\* on to the tag listing and the decision, no request is sent to the
\* controller, and the cooldown entry and the status are left as they were.
C31_CooldownSkip ==
  [][ \A w \in Workers :
        ( /\ pc[w] = "GetApplication"
          /\ pc'[w] # pc[w] \/ idx'[w] # idx[w]
          /\ apps[idx[w]].UUID \in DOMAIN lastUpdates
          /\ now - lastUpdates[apps[idx[w]].UUID] < config.Defaults.Cooldown )
        => /\ pc'[w] \notin { "GetLatestTag", "UpdateApplication", "RestartApplication" }
           /\ input' = input
           /\ calls' = calls
           /\ coolify' = coolify
           /\ lastUpdates' = lastUpdates
           /\ appStatuses' = appStatuses ]_vars

\* the second cycle of an interval run has found "a", updated by the first
\* cycle one clock unit ago, in its cooldown and is in the delay before "b":
\* the status of "a" is still the first cycle's
C31_Witness ==
  /\ main.cycles = 2
  /\ pc[0] = "sleep"
  /\ idx[0] = 1
  /\ "a" \in DOMAIN lastUpdates
  /\ lastUpdates["a"] < lastCheck
  /\ now = lastCheck
  /\ now - lastUpdates["a"] < config.Defaults.Cooldown
  /\ appStatuses["a"].LastCheck < lastCheck

\* C32: a worker reaches the RestartApplication request only from an
\* UpdateApplication request that succeeded for the same application in the
\* same iteration, so every restart request follows an update request for
\* its application; an iteration that ends in an error (the loop continues
\* without the delay), or whose restart request never got to the
\* controller, records nothing, and an update is recorded (cooldown entry
\* and last-update time of the status, both at the present time) only by the
\* step that ends a restart request, after both requests were sent.
C32_UpdateThenRestart ==
  [][ /\ \A w \in Workers :
           LET app      == apps[idx[w]]
               newImage == BuildImageReference(app.Image, input[w].latestTag)
               returned == pc'[w] # pc[w] \/ idx'[w] # idx[w]
           IN  /\ (pc'[w] = "RestartApplication" /\ pc[w] # "RestartApplication") =>
                     /\ pc[w] = "UpdateApplication"
                     /\ idx'[w] = idx[w]
                     /\ apps' = apps
                     /\ UpdateCall(app.UUID, newImage) \in calls'
                     /\ coolify'[app.UUID].DockerImage = newImage
               /\ ( /\ pc[w] \in { "UpdateApplication", "RestartApplication" }
                    /\ returned
                    /\ \/ pc'[w] = "GetApplication"
                       \/ pc[w] = "UpdateApplication"
                       \/ RestartCall(app.UUID) \notin calls' )
                   => lastUpdates' = lastUpdates /\ appStatuses' = appStatuses
      /\ \A c \in calls' :
           c.op = "restart" => \E d \in calls' : d.op = "update" /\ d.uuid = c.uuid
      /\ \A u \in DOMAIN lastUpdates' :
           (u \notin DOMAIN lastUpdates \/ lastUpdates'[u] # lastUpdates[u]) =>
             \E w \in Workers :
               /\ pc[w] = "RestartApplication"
               /\ apps[idx[w]].UUID = u
               /\ pc'[w] \notin { "RestartApplication", "GetApplication" }
               /\ RestartCall(u) \in calls'
               /\ UpdateCall(u, BuildImageReference(apps[idx[w]].Image,
                                                    input[w].latestTag)) \in calls
               /\ lastUpdates'[u] = now
               /\ appStatuses'[u].LastUpdate = now
      /\ \A u \in DOMAIN appStatuses' :
           ( /\ appStatuses'[u].LastUpdate # NoTime
             /\ u \notin DOMAIN appStatuses \/ appStatuses'[u] # appStatuses[u] )
           => u \in DOMAIN lastUpdates' /\ lastUpdates'[u] = appStatuses'[u].LastUpdate
    ]_vars

\* the update of "a" was applied at the controller and its restart request
\* failed with the context live: no cooldown entry and no status for "a",
\* and the cycle is at "b"
C32_Witness ==
  /\ main.ctx = "live"
  /\ pc[0] = "GetApplication"
  /\ idx[0] = 2
  /\ main.cycles = 1
  /\ UpdateCall("a", BuildImageReference(ImageA, Ver(1, 0, 1))) \in calls
  /\ RestartCall("a") \in calls
  /\ coolify["a"].DockerImage = BuildImageReference(ImageA, Ver(1, 0, 1))
  /\ "a" \notin DOMAIN lastUpdates
  /\ "a" \notin DOMAIN appStatuses

\* C35: in interval mode (no schedule, not run-once) the first cycle begins
\* from Start, before the ticker exists, and can begin at once; every later
\* cycle begins by the select taking a tick from the ticker; and the initial
\* cycle, whether it returned an error or not, is followed by the start of
\* the ticker, whose ticks the select can then take.
C35_IntervalMode ==
  [][ (Scheduler(config.Defaults) = "ticker" /\ ~main.once) =>
        /\ pc[0] = "Start" /\ ProcessAlive => ENABLED InitialCheck
        /\ main'.cycles # main.cycles =>
             \/ /\ main.cycles = 0
                /\ pc[0] = "Start"
                /\ main.ticker = "none"
                /\ main'.cycles = 1
             \/ /\ main.cycles >= 1
                /\ pc[0] = "select"
                /\ main.ticker = "tick"
                /\ main'.ticker = "waiting"
                /\ main'.cycles = main.cycles + 1
        /\ main'.ticker # main.ticker /\ main.ticker = "none" =>
             main.cycles = 1 /\ pc[0] = "schedule" /\ pc'[0] = "select"
        /\ ( /\ main.ticker = "none"
             /\ pc[0] \in InIteration \cup { "Start", "sleep" }
             /\ pc'[0] \notin InIteration \cup { "Start", "sleep" } )
           => pc'[0] = "schedule"
        /\ pc[0] = "schedule" /\ ProcessAlive => ENABLED StartScheduler
        /\ ( /\ pc[0] = "select" /\ ProcessAlive
             /\ main.ticker = "tick" /\ main.cycles < MaxCycles )
           => ENABLED SelectTick ]_vars

\* an interval run over discovered applications whose initial cycle failed
\* to list them: the ticker was started all the same and a tick has started
\* the second cycle, which failed in the same way
C35_Witness ==
  /\ Scheduler(config.Defaults) = "ticker"
  /\ ~main.once
  /\ Len(config.Apps) = 0
  /\ apps = << >>
  /\ main.cycles = 2
  /\ main.ticker = "waiting"
  /\ pc[0] = "select"
  /\ main.ctx = "live"

(***************************************************************************)
(* internal/registry: fetching the tag listing                             *)
(*                                                                         *)
(* GetTags for one image against a registry that answers each request as   *)
(* it likes.  pc is the position of the call, input its local variables,   *)
(* output its result.                                                      *)
(***************************************************************************)

\* The registry serves a listing in at most MaxPages pages.
MaxPages == 2

\* The longest time getDockerHubTags sleeps on a Retry-After header, in
\* seconds.
MaxRetryAfter == 300

GhcrPrefix == << "g", "h", "c", "r", ".", "i", "o", "/" >>

\* strings.HasPrefix
HasPrefix(s, prefix) ==
  Len(s) >= Len(prefix) /\ SubSeq(s, 1, Len(prefix)) = prefix

\* The images GetTags is called with: an official image, a user image, a
\* path of three parts and a GHCR image.
TagImages ==
  { << "p", "g" >>, << "n", "/", "n" >>, << "a", "/", "b", "/", "c" >>,
    GhcrPrefix \o << "x" >> }

\* The Retry-After headers of a 429 answer; << >> is no header.
RetryAfterHeaders ==
  { << >>, << "1" >>, << "3", "0", "0" >>, << "3", "0", "1" >>, << "x" >>,
    << "-", "1" >> }

\* The tags of one page of a listing.
PageResults == { << >>, << Ver(1, 0, 0) >>, << Ver(1, 0, 1) >>, << Ver(2, 0, 0) >> }

NoTags == [ tags |-> << >>, err |-> "" ]

InitTags ==
  /\ pc = "call"
  /\ input \in [ image : TagImages, page : { 0 }, allTags : { << >> }, seconds : { 0 } ]
  /\ output = NoTags
  /\ prev = NoCall
  /\ NoWatcher

\* The return of GetTags.
ReturnTags(tags, err) ==
  /\ pc' = "return"
  /\ output' = [ tags |-> tags, err |-> err ]
  /\ UNCHANGED input

\* GetTags and getDockerHubTags up to the loop: the registry is chosen by
\* the image's prefix, and a Docker Hub image has one or two path parts.
CallGetTags ==
  /\ pc = "call"
  /\ IF HasPrefix(input.image, GhcrPrefix)
       THEN pc' = "ghcr" /\ UNCHANGED << input, output >>
     ELSE IF Len(Split(input.image, "/")) \in { 1, 2 }
       THEN /\ pc' = "request"
            /\ input' = [ input EXCEPT !.page = 1 ]
            /\ UNCHANGED output
     ELSE ReturnTags(<< >>, "invalid Docker Hub image format")
  /\ UNCHANGED << prev, watcherVars, procVars >>

\* A 429 answer is retried when it carries a Retry-After header that is an
\* integer of at most 300.
RetryAllowed(retryAfter) ==
  /\ retryAfter # << >>
  /\ ~Atoi(retryAfter).err
  /\ Atoi(retryAfter).val <= MaxRetryAfter

\* One turn of the loop of getDockerHubTags: the request for the current
\* page and what follows from the answer.
DockerHubRequest ==
  /\ pc = "request"
  /\ \E answer \in { "error", "429", "500", "200", "200 undecodable" } :
       CASE answer = "error" -> ReturnTags(<< >>, "fetching tags")
         [] answer = "429" ->
              \E retryAfter \in RetryAfterHeaders :
                IF RetryAllowed(retryAfter)
                  THEN /\ pc' = "sleep"
                       /\ input' = [ input EXCEPT !.seconds = Atoi(retryAfter).val ]
                       /\ UNCHANGED output
                  ELSE ReturnTags(<< >>, "rate limited by Docker Hub")
         [] answer = "500" -> ReturnTags(<< >>, "Docker Hub API returned status")
         [] answer = "200 undecodable" -> ReturnTags(<< >>, "decoding response")
         [] answer = "200" ->
              \E results \in PageResults, more \in BOOLEAN :
                IF more /\ input.page < MaxPages
                  THEN /\ pc' = "request"
                       /\ input' = [ input EXCEPT !.page = @ + 1,
                                                  !.allTags = @ \o results,
                                                  !.seconds = 0 ]
                       /\ UNCHANGED output
                  ELSE ReturnTags(input.allTags \o results, "")
  /\ UNCHANGED << prev, watcherVars, procVars >>

\* time.Sleep for the seconds of the header, then the same URL again.
RetrySleep ==
  /\ pc = "sleep"
  /\ pc' = "request"
  /\ UNCHANGED << input, output, prev, watcherVars, procVars >>

\* getGHCRTags: one request, no retry.
GHCRRequest ==
  /\ pc = "ghcr"
  /\ \E answer \in { "error", "429", "500", "200", "200 undecodable" } :
       CASE answer = "error" -> ReturnTags(<< >>, "fetching GHCR tags")
         [] answer = "429" -> ReturnTags(<< >>, "rate limited by GHCR")
         [] answer = "500" -> ReturnTags(<< >>, "GHCR API returned status")
         [] answer = "200 undecodable" -> ReturnTags(<< >>, "decoding GHCR response")
         [] answer = "200" -> \E results \in PageResults : ReturnTags(results, "")
  /\ UNCHANGED << prev, watcherVars, procVars >>

NextTags == CallGetTags \/ DockerHubRequest \/ RetrySleep \/ GHCRRequest

SpecTags == InitTags /\ [][NextTags]_vars

\* The goroutine that runs the call keeps running.
FairSpecTags == SpecTags /\ WF_vars(NextTags)

\* C28: a check of an application gets an answer from the registry client
\* whatever the registry does: GetTags returns (the tags or an error), so
\* the cycle goes on to the next application and ends.
C28_GetTagsReturns == <>(pc = "return")

(***************************************************************************)
(* internal/config: Load                                                   *)
(*                                                                         *)
(* Load on a YAML file and an environment, followed by the watcher's       *)
(* evaluation of a loaded application.  input is the file and the          *)
(* environment, output the result of Load, prev the evaluation.            *)
(***************************************************************************)

\* The policy strings of a file or an environment: unset, valid, unknown.
LoadPolicies == { "", AutoMinor, NotifyOnly, "auto-major" }

\* The pin strings: unset, an integer, and a value strconv.Atoi rejects.
LoadPins == { << >>, << "1" >>, << "x" >> }

\* The apps section of patrol.yaml: none, or application "a".
YamlApps ==
  { << >> } \cup { << AppConfig("a", ImageA, policy, pin) >> :
                     policy \in LoadPolicies, pin \in LoadPins }

\* PATROL_APPS split at ";" and ":": unset, or one application given by
\* three, four or five fields.
CompactApps ==
  { << >>, << << "a", "a", ImageA >> >>, << << "a", "", ImageA >> >>,
    << << "a", "a" >> >> }
    \cup { << << "a", "a", ImageA, policy >> >> : policy \in LoadPolicies }
    \cup { << << "a", "a", ImageA, policy, pin >> >> :
             policy \in { "", AutoMinor }, pin \in LoadPins }

NoConfig == [ Apps |-> << >>, Defaults |-> [ Policy |-> "" ] ]

LoadOK(cfg) == [ err |-> "", config |-> cfg ]
LoadErr(msg) == [ err |-> msg, config |-> NoConfig ]

\* parseCompactApps on one application spec: name, UUID and image are
\* required, a policy must be one of the four and a pin an integer.
parseCompactApp(parts) ==
  IF Len(parts) < 3 THEN LoadErr("must have at least name:uuid:image")
  ELSE IF parts[1] = "" THEN LoadErr("app name cannot be empty")
  ELSE IF parts[2] = "" THEN LoadErr("app uuid cannot be empty")
  ELSE IF parts[3] = << >> THEN LoadErr("app image cannot be empty")
  ELSE IF Len(parts) > 3 /\ parts[4] # "" /\ parts[4] \notin Policies
    THEN LoadErr("invalid policy")
  ELSE IF Len(parts) > 4 /\ parts[5] # << >> /\ Atoi(parts[5]).err
    THEN LoadErr("invalid pin")
  ELSE LoadOK([ Name |-> parts[1], UUID |-> parts[2], Image |-> parts[3],
                Policy |-> IF Len(parts) > 3 THEN parts[4] ELSE "",
                Pin |-> IF Len(parts) > 4 THEN parts[5] ELSE << >> ])

\* parseCompactApps: the applications of every spec, or the first error.
RECURSIVE parseCompactApps(_)
parseCompactApps(specs) ==
  IF specs = << >> THEN [ err |-> "", apps |-> << >> ]
  ELSE LET first == parseCompactApp(Head(specs))
           rest  == parseCompactApps(Tail(specs))
       IN  IF first.err # "" THEN [ err |-> first.err, apps |-> << >> ]
           ELSE IF rest.err # "" THEN rest
           ELSE [ err |-> "", apps |-> << first.config >> \o rest.apps ]

\* loadFromEnv: PATROL_POLICY replaces the default policy as it is;
\* PATROL_APPS replaces the applications, PATROL_AUTO_DISCOVER clears them.
loadFromEnv(cfg, env) ==
  LET withPolicy == IF env.policy # ""
                      THEN [ cfg EXCEPT !.Defaults.Policy = env.policy ]
                    ELSE cfg
      parsed == parseCompactApps(env.apps)
  IN  IF env.apps # << >>
        THEN IF parsed.err # "" THEN LoadErr("invalid PATROL_APPS format")
             ELSE LoadOK([ withPolicy EXCEPT !.Apps = parsed.apps ])
      ELSE IF env.autoDiscover
        THEN LoadOK([ withPolicy EXCEPT !.Apps = << >> ])
      ELSE LoadOK(withPolicy)

\* Load: the YAML file, then the environment over it, then the defaults and
\* the required fields.  Schedule, interval and cooldown are taken as valid.
Load(yaml, env) ==
  LET fromEnv == loadFromEnv(yaml, env)
      cfg     == fromEnv.config
  IN  IF fromEnv.err # "" THEN LoadErr("failed to load from environment")
      ELSE IF env.token = "" THEN LoadErr("COOLIFY_TOKEN is required")
      ELSE LoadOK(IF cfg.Defaults.Policy = ""
                    THEN [ cfg EXCEPT !.Defaults.Policy = AutoPatch ]
                  ELSE cfg)

InitLoad ==
  /\ pc = "call"
  /\ input \in [ yaml : [ Apps : YamlApps,
                          Defaults : [ Policy : { "", AutoMinor, "auto-major" } ] ],
                 env : [ policy : { "", NotifyOnly, "auto-major" },
                         apps : CompactApps,
                         autoDiscover : BOOLEAN,
                         token : { "", "t" } ] ]
  /\ output = LoadErr("")
  /\ prev = NoCall
  /\ NoWatcher

\* main: cfg, err := config.Load(path); an error ends the process.
CallLoad ==
  /\ pc = "call"
  /\ output' = Load(input.yaml, input.env)
  /\ pc' = IF output'.err # "" THEN "exit" ELSE "loaded"
  /\ UNCHANGED << input, prev, watcherVars, procVars >>

\* The watcher started with the loaded configuration checks an application
\* deployed at 1.0.0 whose registry has 1.0.1.
Evaluate ==
  /\ pc = "loaded"
  /\ \E k \in 1..Len(output.config.Apps) :
       LET app == output.config.Apps[k]
       IN  prev' = [ called |-> TRUE, input |-> app,
                     output |-> IsUpdateAllowed(Ver(1, 0, 0), Ver(1, 0, 1),
                                  GetUpdatePolicy(app, output.config.Defaults),
                                  app.Pin) ]
  /\ pc' = "evaluated"
  /\ UNCHANGED << input, output, watcherVars, procVars >>

NextLoad == CallLoad \/ Evaluate

SpecLoad == InitLoad /\ [][NextLoad]_vars

\* C29: a configuration whose default policy or an application's policy is
\* not one of the four policies, or in which a pin is not an integer, is
\* never loaded, and the watcher's evaluation of a loaded application never
\* ends in "unknown update policy" or "invalid pin value".
C29_InvalidConfigIsFatal ==
  /\ pc \in { "loaded", "evaluated" } =>
       /\ output.config.Defaults.Policy \in Policies
       /\ \A k \in 1..Len(output.config.Apps) :
            /\ output.config.Apps[k].Policy \in Policies \cup { "" }
            /\ output.config.Apps[k].Pin # << >> =>
                 ~Atoi(output.config.Apps[k].Pin).err
  /\ pc = "evaluated" =>
       /\ prev.output.reason #
            ReasonUnknownPolicy(GetUpdatePolicy(prev.input, output.config.Defaults))
       /\ prev.output.reason # ReasonInvalidPin(prev.input.Pin)

====
